---- MODULE Spec2Model ----
(***************************************************************************)
(* Grid-list tile styler (TileStyler, FixedTileStyler, RatioTileStyler,     *)
(* FitTileStyler) of src/src/app/material/esm2015/core/line/line.js,        *)
(* lines 92-320.                                                            *)
(*                                                                          *)
(* Representation.                                                          *)
(*  - A JavaScript string given by a caller (gutter size, row height,       *)
(*    ratio) is a sequence of one-character strings, so that the regular    *)
(*    expressions, split(':') and parseFloat are computed character by      *)
(*    character.                                                            *)
(*  - A JavaScript number is a record [n, d]: the rational n/d in lowest    *)
(*    terms with d > 0, or d = 0 for the non-finite values: n = 1 is        *)
(*    Infinity, n = -1 is -Infinity, n = 0 is NaN.  Rounding of IEEE        *)
(*    doubles and the sign of zero are not modelled.                        *)
(*  - A CSS value built by a template literal is the sequence of the        *)
(*    pieces of the template: the literal pieces as strings, an embedded    *)
(*    string character by character, an embedded number as printed by       *)
(*    NumStr.  null (a cleared or never written style) is the empty         *)
(*    sequence, which no template produces.                                 *)
(***************************************************************************)
EXTENDS Integers, Sequences, FiniteSets, TLC

(***************************************************************************)
(* Bounds of the model.                                                     *)
(***************************************************************************)
\* tiles registered in the list
NumTiles == 2
\* calls made on the styler in one behaviour
MaxCalls == 3

(***************************************************************************)
(* Characters and numbers.                                                  *)
(***************************************************************************)
Digit == {"0", "1", "2", "3", "4", "5", "6", "7", "8", "9"}

Letter ==
  {"a", "b", "c", "d", "e", "f", "g", "h", "i", "j", "k", "l", "m",
   "n", "o", "p", "q", "r", "s", "t", "u", "v", "w", "x", "y", "z",
   "A", "B", "C", "D", "E", "F", "G", "H", "I", "J", "K", "L", "M",
   "N", "O", "P", "Q", "R", "S", "T", "U", "V", "W", "X", "Y", "Z"}

DigitVal(c) ==
  CASE c = "0" -> 0 [] c = "1" -> 1 [] c = "2" -> 2 [] c = "3" -> 3
    [] c = "4" -> 4 [] c = "5" -> 5 [] c = "6" -> 6 [] c = "7" -> 7
    [] c = "8" -> 8 [] c = "9" -> 9

Abs(i) == IF i < 0 THEN -i ELSE i

Sgn(i) == IF i < 0 THEN -1 ELSE IF i = 0 THEN 0 ELSE 1

RECURSIVE Gcd(_, _)
Gcd(a, b) == IF b = 0 THEN a ELSE Gcd(b, a % b)

RECURSIVE Pow10(_)
Pow10(k) == IF k = 0 THEN 1 ELSE 10 * Pow10(k - 1)

NaN == [n |-> 0, d |-> 0]

\* the number n/d (d = 0: Infinity, -Infinity or NaN by the sign of n)
Num(n, d) ==
  IF d = 0 THEN [n |-> Sgn(n), d |-> 0]
  ELSE LET g == Gcd(Abs(n), Abs(d))
       IN  [n |-> (Sgn(d) * n) \div g, d |-> Abs(d) \div g]

Int2Num(i) == [n |-> i, d |-> 1]

\* JavaScript a / b
NumDiv(a, b) ==
  IF a.d = 0 /\ b.d = 0 THEN NaN
  ELSE IF a.d = 0 THEN Num(a.n * (IF b.n < 0 THEN -1 ELSE 1), 0)
  ELSE IF b.d = 0 THEN (IF b.n = 0 THEN NaN ELSE Int2Num(0))
  ELSE Num(a.n * b.d, a.d * b.n)

\* JavaScript a - b for a finite b
NumSub(a, b) ==
  IF a.d = 0 THEN a ELSE Num(a.n * b.d - b.n * a.d, a.d * b.d)

\* a number embedded in a template literal
NumStr(x) ==
  IF x.d = 0
    THEN (IF x.n = 0 THEN <<"NaN">>
          ELSE IF x.n = 1 THEN <<"Infinity">> ELSE <<"-Infinity">>)
  ELSE IF x.d = 1 THEN <<ToString(x.n)>>
  ELSE <<ToString(x.n), "/", ToString(x.d)>>

\* value.split(':'): the parts between the separators
RECURSIVE split(_)
split(s) ==
  IF \A i \in 1..Len(s) : s[i] # ":" THEN <<s>>
  ELSE LET i == CHOOSE j \in 1..Len(s) :
                  s[j] = ":" /\ \A k \in 1..(j - 1) : s[k] # ":"
       IN  <<SubSeq(s, 1, i - 1)>> \o split(SubSeq(s, i + 1, Len(s)))

\* length of the longest run of digits of s that starts at position i
RECURSIVE DigitRun(_, _)
DigitRun(s, i) ==
  IF i <= Len(s) /\ s[i] \in Digit THEN 1 + DigitRun(s, i + 1) ELSE 0

\* value of the digits s[i .. i + k - 1]
RECURSIVE DigitsVal(_, _, _)
DigitsVal(s, i, k) ==
  IF k = 0 THEN 0
  ELSE 10 * DigitsVal(s, i, k - 1) + DigitVal(s[i + k - 1])

\* parseFloat(s): optional sign, digits, optional fraction; NaN when the
\* string does not start with a number (no white space or exponent occurs
\* in the inputs of the model)
parseFloat(s) ==
  LET neg == Len(s) >= 1 /\ s[1] = "-"
      b == IF Len(s) >= 1 /\ s[1] \in {"-", "+"} THEN 2 ELSE 1
      ip == DigitRun(s, b)
      dot == b + ip <= Len(s) /\ s[b + ip] = "."
      fp == IF dot THEN DigitRun(s, b + ip + 1) ELSE 0
      mag == Num(DigitsVal(s, b, ip) * Pow10(fp) + DigitsVal(s, b + ip + 1, fp),
                 Pow10(fp))
  IN  IF ip = 0 /\ fp = 0 THEN NaN
      ELSE IF neg THEN Num(-mag.n, mag.d) ELSE mag

(***************************************************************************)
(* Helpers of the styler module.                                            *)
(***************************************************************************)
\* calc(exp)
calc(exp) == <<"calc(">> \o exp \o <<")">>

\* mutant of normalizeUnits: no unit is appended
normalizeUnitsIdentity(value) == value

\* normalizeUnits(value): value.match(/([A-Za-z%]+)$/) ? value : value + 'px'
normalizeUnits(value) ==
  IF Len(value) >= 1 /\ value[Len(value)] \in Letter \cup {"%"}
    THEN value
    ELSE value \o <<"p", "x">>

\* the tail ((\.\d+)?[A-Za-z%$]?)+$ of cssCalcAllowedValue, from position i:
\* every iteration of the group matches a fraction, a unit character, both
\* or nothing, so the tail is any sequence of fractions and unit characters
RECURSIVE CalcTail(_, _)
CalcTail(s, i) ==
  IF i > Len(s) THEN TRUE
  ELSE IF s[i] \in Letter \cup {"%", "$"} THEN CalcTail(s, i + 1)
  ELSE IF s[i] = "." /\ DigitRun(s, i + 1) >= 1
    THEN CalcTail(s, i + 1 + DigitRun(s, i + 1))
  ELSE FALSE

\* cssCalcAllowedValue.test(s) for /^-?\d+((\.\d+)?[A-Za-z%$]?)+$/
cssCalcAllowedValue(s) ==
  LET b == IF Len(s) >= 1 /\ s[1] = "-" THEN 2 ELSE 1
  IN  DigitRun(s, b) >= 1 /\ CalcTail(s, b + DigitRun(s, b))

(***************************************************************************)
(* Values the callers pass in.                                              *)
(***************************************************************************)
\* gutterSize arguments of init
GutterSizes == { <<"4", "p", "x">>, <<"1">>, <<"4", "!", "!">> }

\* fixedRowHeight arguments of new FixedTileStyler
RowHeights ==
  { <<"1", "0", "0", "p", "x">>, <<"1", "0", "0">>, <<"1", "0", "0", "!", "!">> }

\* value arguments of new RatioTileStyler
Ratios ==
  { <<"3", ":", "1">>, <<"1", ":", "2">>, <<"3", ":", "1", ":", "2">>,
    <<"3", "1">>, <<"a", ":", "b">>, <<"3", ":">>, <<":", "1">> }

\* the arguments of init: gutterSize, the tracker's rowCount and rowspan,
\* cols and direction
InitArgs ==
  { [gutterSize |-> <<"4", "p", "x">>, rowCount |-> 2, rowspan |-> 3,
     cols |-> 3, direction |-> "ltr"],
    [gutterSize |-> <<"1">>, rowCount |-> 1, rowspan |-> 1,
     cols |-> 1, direction |-> "rtl"],
    [gutterSize |-> <<"4", "p", "x">>, rowCount |-> 0, rowspan |-> 0,
     cols |-> 2, direction |-> "rtl"],
    [gutterSize |-> <<"1">>, rowCount |-> 2, rowspan |-> 2,
     cols |-> 2, direction |-> "ltr"],
    [gutterSize |-> <<"4", "!", "!">>, rowCount |-> 1, rowspan |-> 1,
     cols |-> 1, direction |-> "ltr"] }

\* the arguments of setStyle: rowIndex, colIndex and the tile's rowspan and
\* colspan at the time of the call
Placements ==
  { [rowIndex |-> 0, colIndex |-> 0, rowspan |-> 1, colspan |-> 1],
    [rowIndex |-> 1, colIndex |-> 2, rowspan |-> 1, colspan |-> 1],
    [rowIndex |-> 0, colIndex |-> 1, rowspan |-> 2, colspan |-> 2],
    [rowIndex |-> 2, colIndex |-> 0, rowspan |-> 1, colspan |-> 3] }

TileIds == 1..NumTiles

(***************************************************************************)
(* State.                                                                   *)
(***************************************************************************)
\* style properties written through tile._setStyle
TileProps ==
  {"left", "right", "width", "top", "height", "marginTop", "paddingTop"}

\* style properties written through list._setListStyle
ListProps == {"height", "paddingBottom"}

\* null: a style that is cleared or was never written
Null == <<>>

\* an unset field embedded in a template literal
Undefined == <<"undefined">>

VARIABLES
  styler,     \* the current tile styler of the grid list
  tiles,      \* list._tiles: rowspan, colspan and inline style of every tile
  listStyle,  \* inline style of the grid list element
  hasTiles,   \* whether list._tiles is defined yet
  last,       \* the last call made and how it ended
  calls,      \* calls made so far
  hist,       \* what the calls made so far were: the directions init was
              \* given, and whether setStyle ran before the first init
  swap,       \* the grid list's layout pass and row-height swap in progress
  line,       \* setLines: the host element, the query list and the subscription
  tab,        \* an instance of a class made by mixinTabIndex
  menu,       \* MatMenuHarness: the menus of the page and the call in progress
  sch         \* the address-form schematic: options, tree and rule chain

\* the variables of the tile stylers and of the list they style
gridVars == <<styler, tiles, listStyle, hasTiles, last, calls, hist, swap>>

vars == <<styler, tiles, listStyle, hasTiles, last, calls, hist, swap, line, tab, menu, sch>>

\* the value of a variable of a unit that a specification leaves out
Unused == "unused"

\* TileStyler(): the fields as the constructor leaves them; the fields that
\* init sets are undefined until then (an undefined _cols behaves as NaN in
\* the two divisions that read it)
TileStyler(kind) ==
  [ kind           |-> kind,
    _gutterSize    |-> Undefined,
    _rows          |-> 0,
    _rowspan       |-> 0,
    _cols          |-> NaN,
    _direction     |-> "undefined",
    fixedRowHeight |-> <<>>,
    rowHeightRatio |-> NaN,
    baseTileHeight |-> Undefined ]

(***************************************************************************)
(* TileStyler: the methods the three stylers share.                         *)
(***************************************************************************)
\* mutant of BaseInit: the direction of an earlier init is kept
BaseInitKeepsDirection(s, a) ==
  [s EXCEPT !._gutterSize = normalizeUnits(a.gutterSize),
            !._rows = a.rowCount,
            !._rowspan = a.rowspan,
            !._cols = Int2Num(a.cols)]

\* TileStyler.init(gutterSize, tracker, cols, direction): the styler s
\* afterwards, for the arguments a
BaseInit(s, a) ==
  [s EXCEPT !._gutterSize = normalizeUnits(a.gutterSize),
            !._rows = a.rowCount,
            !._rowspan = a.rowspan,
            !._cols = Int2Num(a.cols),
            !._direction = a.direction]

\* `(${sizePercent}% - (${this._gutterSize} * ${gutterFraction}))`
getBaseTileSize(s, sizePercent, gutterFraction) ==
  <<"(">> \o NumStr(sizePercent) \o <<"% - (">> \o s._gutterSize
    \o <<" * ">> \o NumStr(gutterFraction) \o <<"))">>

\* mutant of getTilePosition: the first cell is not special-cased
getTilePositionAlwaysCalc(s, baseSize, offset) ==
  calc(<<"(">> \o baseSize \o <<" + ">> \o s._gutterSize
         \o <<") * ", ToString(offset)>>)

\* offset === 0 ? '0' : calc(`(${baseSize} + ${this._gutterSize}) * ${offset}`)
getTilePosition(s, baseSize, offset) ==
  IF offset = 0 THEN <<"0">>
  ELSE calc(<<"(">> \o baseSize \o <<" + ">> \o s._gutterSize
              \o <<") * ", ToString(offset)>>)

\* mutant of getTileSize: one gutter per spanned cell
getTileSizeSpanGutters(s, baseSize, span) ==
  <<"(">> \o baseSize \o <<" * ", ToString(span), ") + (", ToString(span),
    " * ">> \o s._gutterSize \o <<")">>

\* `(${baseSize} * ${span}) + (${span - 1} * ${this._gutterSize})`
getTileSize(s, baseSize, span) ==
  <<"(">> \o baseSize \o <<" * ", ToString(span), ") + (", ToString(span - 1),
    " * ">> \o s._gutterSize \o <<")">>

\* a call of tile._setStyle(prop, value) on the tile `on`, or for on = 0 the
\* assignment list._setListStyle([prop, value]) makes on the list element
Write(on, prop, value) == [on |-> on, prop |-> prop, value |-> value]

\* mutant of Side: the sides are swapped
SideSwapped(s) == IF s._direction = "rtl" THEN "left" ELSE "right"

\* side of setColStyles
Side(s) == IF s._direction = "rtl" THEN "right" ELSE "left"

\* mutant of setColStyles: the width is written without calc
setColStylesBareWidth(s, tile, colIndex, percentWidth, gutterWidth) ==
  LET baseTileWidth == getBaseTileSize(s, percentWidth, gutterWidth)
  IN  << Write(tile.id, Side(s), getTilePosition(s, baseTileWidth, colIndex)),
         Write(tile.id, "width", getTileSize(s, baseTileWidth, tile.colspan)) >>

\* mutant of setColStyles: the opposite side is written as well
setColStylesBothSides(s, tile, colIndex, percentWidth, gutterWidth) ==
  LET baseTileWidth == getBaseTileSize(s, percentWidth, gutterWidth)
  IN  << Write(tile.id, "left", getTilePosition(s, baseTileWidth, colIndex)),
         Write(tile.id, "right", getTilePosition(s, baseTileWidth, colIndex)),
         Write(tile.id, "width", calc(getTileSize(s, baseTileWidth, tile.colspan))) >>

\* setColStyles(tile, colIndex, percentWidth, gutterWidth): its writes
setColStyles(s, tile, colIndex, percentWidth, gutterWidth) ==
  LET baseTileWidth == getBaseTileSize(s, percentWidth, gutterWidth)
  IN  << Write(tile.id, Side(s), getTilePosition(s, baseTileWidth, colIndex)),
         Write(tile.id, "width", calc(getTileSize(s, baseTileWidth, tile.colspan))) >>

\* mutant of getGutterSpan: one gutter per row
getGutterSpanWhole(s) ==
  s._gutterSize \o <<" * (", ToString(s._rowspan), ")">>

\* `${this._gutterSize} * (${this._rowspan} - 1)`
getGutterSpan(s) ==
  s._gutterSize \o <<" * (", ToString(s._rowspan), " - 1)">>

\* `${this._rowspan} * ${this.getTileSize(tileHeight, 1)}`
getTileSpan(s, tileHeight) ==
  <<ToString(s._rowspan), " * ">> \o getTileSize(s, tileHeight, 1)

(***************************************************************************)
(* setRowStyles of the three stylers: their writes, and for the ratio       *)
(* styler the baseTileHeight it stores.                                     *)
(***************************************************************************)
\* mutant of FixedSetRowStyles: the position is written to marginTop
FixedSetRowStylesMargin(s, tile, rowIndex) ==
  << Write(tile.id, "marginTop", getTilePosition(s, s.fixedRowHeight, rowIndex)),
     Write(tile.id, "height", calc(getTileSize(s, s.fixedRowHeight, tile.rowspan))) >>

FixedSetRowStyles(s, tile, rowIndex) ==
  << Write(tile.id, "top", getTilePosition(s, s.fixedRowHeight, rowIndex)),
     Write(tile.id, "height", calc(getTileSize(s, s.fixedRowHeight, tile.rowspan))) >>

\* mutant of RatioPercentHeightPerTile: the division is inverted
RatioPercentHeightInverted(s, percentWidth) == NumDiv(s.rowHeightRatio, percentWidth)

\* percentHeightPerTile of RatioTileStyler.setRowStyles
RatioPercentHeightPerTile(s, percentWidth) == NumDiv(percentWidth, s.rowHeightRatio)

\* this.baseTileHeight as RatioTileStyler.setRowStyles assigns it
RatioBaseTileHeight(s, percentWidth, gutterWidth) ==
  getBaseTileSize(s, RatioPercentHeightPerTile(s, percentWidth), gutterWidth)

\* mutant of RatioSetRowStyles: the base that an earlier call stored is used
RatioSetRowStylesStale(s, tile, rowIndex, percentWidth, gutterWidth) ==
  << Write(tile.id, "marginTop", getTilePosition(s, s.baseTileHeight, rowIndex)),
     Write(tile.id, "paddingTop",
           calc(getTileSize(s, s.baseTileHeight, tile.rowspan))) >>

RatioSetRowStyles(s, tile, rowIndex, percentWidth, gutterWidth) ==
  LET baseTileHeight == RatioBaseTileHeight(s, percentWidth, gutterWidth)
  IN  << Write(tile.id, "marginTop", getTilePosition(s, baseTileHeight, rowIndex)),
         Write(tile.id, "paddingTop",
               calc(getTileSize(s, baseTileHeight, tile.rowspan))) >>

\* mutant of FitBaseTileHeight: the row count and the row span are swapped
FitBaseTileHeightSwapped(s) ==
  LET percentHeightPerTile == NumDiv(Int2Num(100), Int2Num(s._rows))
      gutterHeightPerTile == NumDiv(Int2Num(s._rowspan - 1), Int2Num(s._rowspan))
  IN  getBaseTileSize(s, percentHeightPerTile, gutterHeightPerTile)

\* mutant of FitBaseTileHeight: a row count and a row span of 0 count as 1
FitBaseTileHeightMinOne(s) ==
  LET rowspan == IF s._rowspan = 0 THEN 1 ELSE s._rowspan
      rows == IF s._rows = 0 THEN 1 ELSE s._rows
  IN  getBaseTileSize(s, NumDiv(Int2Num(100), Int2Num(rowspan)),
                      NumDiv(Int2Num(rows - 1), Int2Num(rows)))

\* baseTileHeight of FitTileStyler.setRowStyles
FitBaseTileHeight(s) ==
  LET percentHeightPerTile == NumDiv(Int2Num(100), Int2Num(s._rowspan))
      gutterHeightPerTile == NumDiv(Int2Num(s._rows - 1), Int2Num(s._rows))
  IN  getBaseTileSize(s, percentHeightPerTile, gutterHeightPerTile)

FitSetRowStyles(s, tile, rowIndex) ==
  LET baseTileHeight == FitBaseTileHeight(s)
  IN  << Write(tile.id, "top", getTilePosition(s, baseTileHeight, rowIndex)),
         Write(tile.id, "height", calc(getTileSize(s, baseTileHeight, tile.rowspan))) >>

\* mutant of PercentWidthPerTile: the percent of one column too many
PercentWidthPerTileExtraColumn(s) ==
  NumDiv(Int2Num(100), NumSub(s._cols, Int2Num(-1)))

\* percentWidthPerTile of setStyle: 100 / this._cols
PercentWidthPerTile(s) == NumDiv(Int2Num(100), s._cols)

\* mutant of GutterWidthFractionPerTile: one gutter per column
GutterWidthFractionWhole(s) == NumDiv(s._cols, s._cols)

\* gutterWidthFractionPerTile of setStyle: (this._cols - 1) / this._cols
GutterWidthFractionPerTile(s) == NumDiv(NumSub(s._cols, Int2Num(1)), s._cols)

\* mutant of setStyle: the row index and the column index are swapped
setStyleSwappedIndices(s, tile, rowIndex, colIndex) ==
  LET percentWidthPerTile == PercentWidthPerTile(s)
      gutterWidthFractionPerTile == GutterWidthFractionPerTile(s)
  IN  setColStyles(s, tile, rowIndex, percentWidthPerTile, gutterWidthFractionPerTile)
        \o (CASE s.kind = "fixed" -> FixedSetRowStyles(s, tile, colIndex)
              [] s.kind = "ratio" ->
                   RatioSetRowStyles(s, tile, colIndex, percentWidthPerTile,
                                     gutterWidthFractionPerTile)
              [] s.kind = "fit" -> FitSetRowStyles(s, tile, colIndex))

\* TileStyler.setStyle(tile, rowIndex, colIndex): the writes of setColStyles,
\* then those of the styler's setRowStyles
setStyle(s, tile, rowIndex, colIndex) ==
  LET percentWidthPerTile == PercentWidthPerTile(s)
      gutterWidthFractionPerTile == GutterWidthFractionPerTile(s)
  IN  setColStyles(s, tile, colIndex, percentWidthPerTile, gutterWidthFractionPerTile)
        \o (CASE s.kind = "fixed" -> FixedSetRowStyles(s, tile, rowIndex)
              [] s.kind = "ratio" ->
                   RatioSetRowStyles(s, tile, rowIndex, percentWidthPerTile,
                                     gutterWidthFractionPerTile)
              [] s.kind = "fit" -> FitSetRowStyles(s, tile, rowIndex))

\* mutant of StylerAfterSetStyle: setRowStyles does not store the base
StylerAfterSetStyleKeepsBase(s) == s

\* the styler after setStyle: RatioTileStyler.setRowStyles stores baseTileHeight
StylerAfterSetStyle(s) ==
  IF s.kind = "ratio"
    THEN [s EXCEPT !.baseTileHeight =
            RatioBaseTileHeight(s, PercentWidthPerTile(s),
                                GutterWidthFractionPerTile(s))]
    ELSE s

\* getComputedHeight(): the [property, value] pair, or Null
getComputedHeight(s) ==
  CASE s.kind = "fixed" ->
         <<"height",
           calc(getTileSpan(s, s.fixedRowHeight) \o <<" + ">> \o getGutterSpan(s))>>
    [] s.kind = "ratio" ->
         <<"paddingBottom",
           calc(getTileSpan(s, s.baseTileHeight) \o <<" + ">> \o getGutterSpan(s))>>
    [] s.kind = "fit" -> Null

\* list._setListStyle(style) of the grid list: assigns style[1] to the property
\* style[0] of the list element, nothing when style is null
setListStyle(style) ==
  IF style = Null THEN <<>> ELSE <<Write(0, style[1], style[2])>>

(***************************************************************************)
(* reset(list) of the three stylers: their writes.  n is the number of      *)
(* tiles of list._tiles, defined whether list._tiles is defined.            *)
(***************************************************************************)
\* mutant of ClearTiles: the second property is not cleared
RECURSIVE ClearTilesFirstOnly(_, _, _)
ClearTilesFirstOnly(n, p1, p2) ==
  IF n = 0 THEN <<>>
  ELSE ClearTilesFirstOnly(n - 1, p1, p2) \o <<Write(n, p1, Null)>>

\* mutant of ClearTiles: the first property is set to '0'
RECURSIVE ClearTilesToZero(_, _, _)
ClearTilesToZero(n, p1, p2) ==
  IF n = 0 THEN <<>>
  ELSE ClearTilesToZero(n - 1, p1, p2) \o <<Write(n, p1, <<"0">>), Write(n, p2, Null)>>

\* list._tiles.forEach(tile => { tile._setStyle(p1, null); tile._setStyle(p2, null) })
RECURSIVE ClearTiles(_, _, _)
ClearTiles(n, p1, p2) ==
  IF n = 0 THEN <<>>
  ELSE ClearTiles(n - 1, p1, p2) \o <<Write(n, p1, Null), Write(n, p2, Null)>>

FixedReset(n, defined) ==
  setListStyle(<<"height", Null>>)
    \o (IF defined THEN ClearTiles(n, "top", "height") ELSE <<>>)

\* mutant of RatioReset: the list's paddingBottom is not cleared
RatioResetKeepsPadding(n, defined) ==
  IF defined THEN ClearTiles(n, "marginTop", "paddingTop") ELSE <<>>

\* without a test of list._tiles: forEach throws when it is undefined
RatioReset(n, defined) ==
  setListStyle(<<"paddingBottom", Null>>)
    \o (IF defined THEN ClearTiles(n, "marginTop", "paddingTop") ELSE <<>>)

RatioResetThrows(defined) == ~defined

FitReset(n, defined) ==
  IF defined THEN ClearTiles(n, "top", "height") ELSE <<>>

reset(s, n, defined) ==
  CASE s.kind = "fixed" -> FixedReset(n, defined)
    [] s.kind = "ratio" -> RatioReset(n, defined)
    [] s.kind = "fit" -> FitReset(n, defined)

ResetThrows(s, defined) == s.kind = "ratio" /\ RatioResetThrows(defined)

(***************************************************************************)
(* The effect of a sequence of writes on the styles.                        *)
(***************************************************************************)
\* the value of property prop of `on` after the writes ws, old before them
After(ws, on, prop, old) ==
  LET hits == { i \in 1..Len(ws) : ws[i].on = on /\ ws[i].prop = prop }
  IN  IF hits = {} THEN old
      ELSE ws[CHOOSE i \in hits : \A j \in hits : j <= i].value

ApplyTiles(ts, ws) ==
  [t \in DOMAIN ts |-> [p \in TileProps |-> After(ws, t, p, ts[t][p])]]

ApplyList(ls, ws) == [p \in ListProps |-> After(ws, 0, p, ls[p])]

(***************************************************************************)
(* Constructors.                                                            *)
(***************************************************************************)
\* new FixedTileStyler(fixedRowHeight)
NewFixedTileStyler(fixedRowHeight) ==
  [TileStyler("fixed") EXCEPT !.fixedRowHeight = fixedRowHeight]

\* mutant of ParseRatioThrows: more than two parts are accepted
ParseRatioThrowsBelowTwo(value) == Len(split(value)) < 2

\* RatioTileStyler._parseRatio: whether it throws for value
ParseRatioThrows(value) == Len(split(value)) # 2

\* RatioTileStyler._parseRatio: the rowHeightRatio it stores
ParseRatio(value) ==
  LET ratioParts == split(value)
  IN  NumDiv(parseFloat(ratioParts[1]), parseFloat(ratioParts[2]))

\* new RatioTileStyler(value), for a value _parseRatio accepts
NewRatioTileStyler(value) ==
  [TileStyler("ratio") EXCEPT !.rowHeightRatio = ParseRatio(value)]

\* new FitTileStyler()
NewFitTileStyler == TileStyler("fit")

\* what the list holds as its styler when the constructor threw
NoStyler == TileStyler("none")

(***************************************************************************)
(* The record of the last step: the name of the call, the error it threw    *)
(* ("" when it returned), its arguments and the writes it made.             *)
(***************************************************************************)
NoValue == <<>>

NoInitArgs ==
  [gutterSize |-> <<>>, rowCount |-> 0, rowspan |-> 0, cols |-> 0, direction |-> ""]

NoPlacement == [rowIndex |-> 0, colIndex |-> 0, rowspan |-> 0, colspan |-> 0]

Call(op, threw, value, args, tile, at, writes) ==
  [op |-> op, threw |-> threw, value |-> value, args |-> args,
   tile |-> tile, at |-> at, writes |-> writes]

NullStyle == [p \in TileProps |-> Null]

\* the list constructs its styler: the constructor returns it or throws
Init ==
  /\ \/ \E v \in RowHeights :
          /\ styler = NewFixedTileStyler(v)
          /\ last = Call("newFixed", "", v, NoInitArgs, 0, NoPlacement, <<>>)
     \/ \E v \in Ratios :
          /\ styler = IF ParseRatioThrows(v) THEN NoStyler ELSE NewRatioTileStyler(v)
          /\ last = Call("newRatio", IF ParseRatioThrows(v) THEN "invalid ratio" ELSE "",
                         v, NoInitArgs, 0, NoPlacement, <<>>)
     \/ /\ styler = NewFitTileStyler
        /\ last = Call("newFit", "", NoValue, NoInitArgs, 0, NoPlacement, <<>>)
  /\ tiles = <<>>
  /\ listStyle = [p \in ListProps |-> Null]
  /\ hasTiles = FALSE
  /\ calls = 0
  /\ hist = [dirs |-> {}, early |-> FALSE]
  /\ swap = Unused
  /\ line = Unused
  /\ tab = Unused
  /\ menu = Unused
  /\ sch = Unused

(***************************************************************************)
(* Actions: the list's tiles becoming available, and one per call on the    *)
(* styler.                                                                  *)
(***************************************************************************)
\* the content query of the list resolves: list._tiles is defined from now on
RegisterTiles ==
  /\ ~hasTiles
  /\ hasTiles' = TRUE
  /\ \E k \in 0..NumTiles : tiles' = [i \in 1..k |-> NullStyle]
  /\ last' = Call("registerTiles", "", NoValue, NoInitArgs, 0, NoPlacement, <<>>)
  /\ UNCHANGED <<styler, listStyle, calls, hist>>
  /\ UNCHANGED <<swap, line, tab, menu, sch>>

\* mutant of FixedInitThrows: the negation of the test is missing
FixedInitThrowsOnMatch(s) == cssCalcAllowedValue(normalizeUnits(s.fixedRowHeight))

\* FixedTileStyler.init: whether the test of the normalized row height throws
FixedInitThrows(s) == ~cssCalcAllowedValue(normalizeUnits(s.fixedRowHeight))

\* whether styler.init throws
InitThrows(s) == s.kind = "fixed" /\ FixedInitThrows(s)

\* mutant of StylerAfterInit: the row height is tested before anything is stored
StylerAfterInitTestFirst(s, a) ==
  IF InitThrows(s) THEN s
  ELSE IF s.kind = "fixed"
    THEN [BaseInit(s, a) EXCEPT !.fixedRowHeight = normalizeUnits(s.fixedRowHeight)]
    ELSE BaseInit(s, a)

\* styler.init(gutterSize, tracker, cols, direction): the styler afterwards,
\* whether init returns or throws
StylerAfterInit(s, a) ==
  IF s.kind = "fixed"
    THEN [BaseInit(s, a) EXCEPT !.fixedRowHeight = normalizeUnits(s.fixedRowHeight)]
    ELSE BaseInit(s, a)

StylerInit ==
  /\ styler.kind # "none"
  /\ calls < MaxCalls
  /\ \E a \in InitArgs :
       /\ styler' = StylerAfterInit(styler, a)
       /\ hist' = [hist EXCEPT !.dirs = @ \cup {a.direction}]
       /\ last' = Call("init", IF InitThrows(styler) THEN "invalid rowHeight" ELSE "",
                       NoValue, a, 0, NoPlacement, <<>>)
  /\ calls' = calls + 1
  /\ UNCHANGED <<tiles, listStyle, hasTiles>>
  /\ UNCHANGED <<swap, line, tab, menu, sch>>

\* styler.setStyle(tile, rowIndex, colIndex) for a registered tile
SetStyle ==
  /\ styler.kind # "none"
  /\ calls < MaxCalls
  /\ hasTiles
  /\ \E t \in DOMAIN tiles, at \in Placements :
       LET tile == [id |-> t, rowspan |-> at.rowspan, colspan |-> at.colspan]
           ws == setStyle(styler, tile, at.rowIndex, at.colIndex)
       IN  /\ tiles' = ApplyTiles(tiles, ws)
           /\ last' = Call("setStyle", "", NoValue, NoInitArgs, t, at, ws)
  /\ styler' = StylerAfterSetStyle(styler)
  /\ hist' = [hist EXCEPT !.early = @ \/ hist.dirs = {}]
  /\ calls' = calls + 1
  /\ UNCHANGED <<listStyle, hasTiles>>
  /\ UNCHANGED <<swap, line, tab, menu, sch>>

\* the list applies the computed height:
\* list._setListStyle(styler.getComputedHeight())
SetComputedHeight ==
  /\ styler.kind # "none"
  /\ calls < MaxCalls
  /\ LET ws == setListStyle(getComputedHeight(styler))
     IN  /\ listStyle' = ApplyList(listStyle, ws)
         /\ last' = Call("getComputedHeight", "", NoValue, NoInitArgs, 0,
                         NoPlacement, ws)
  /\ calls' = calls + 1
  /\ UNCHANGED <<styler, tiles, hasTiles, hist>>
  /\ UNCHANGED <<swap, line, tab, menu, sch>>

\* styler.reset(list)
Reset ==
  /\ styler.kind # "none"
  /\ calls < MaxCalls
  /\ LET ws == reset(styler, Len(tiles), hasTiles)
     IN  /\ listStyle' = ApplyList(listStyle, ws)
         /\ tiles' = ApplyTiles(tiles, ws)
         /\ last' = Call("reset", IF ResetThrows(styler, hasTiles) THEN "TypeError" ELSE "",
                         NoValue, NoInitArgs, 0, NoPlacement, ws)
  /\ calls' = calls + 1
  /\ UNCHANGED <<styler, hasTiles, hist>>
  /\ UNCHANGED <<swap, line, tab, menu, sch>>

Next ==
  \/ RegisterTiles
  \/ StylerInit
  \/ SetStyle
  \/ SetComputedHeight
  \/ Reset

Spec == Init /\ [][Next]_vars

(***************************************************************************)
(* The grid list swapping its row-height policy: the old styler resets the  *)
(* list, a styler of another kind is constructed, and a layout pass runs    *)
(* init, setStyle on every tile and the container height in that order.     *)
(***************************************************************************)
\* swaps one behaviour makes
MaxSwaps == 1

\* the placements the layout pass gives a tile
SwapPlacements ==
  { [rowIndex |-> 0, colIndex |-> 0, rowspan |-> 1, colspan |-> 1],
    [rowIndex |-> 1, colIndex |-> 2, rowspan |-> 1, colspan |-> 1] }

\* the stylers the list can construct
NewStylers ==
  { NewFixedTileStyler(v) : v \in RowHeights }
    \cup { NewRatioTileStyler(v) : v \in { r \in Ratios : ~ParseRatioThrows(r) } }
    \cup { NewFitTileStyler }

Pass(phase, next, swaps, from) ==
  [phase |-> phase, next |-> next, swaps |-> swaps, from |-> from]

\* the phase that follows the styling of tile number `styled`
AfterTile(styled) == IF styled >= Len(tiles) THEN "height" ELSE "tiles"

\* a list with its tiles registered and its first styler constructed
SwapInit ==
  /\ styler \in NewStylers
  /\ \E k \in 0..NumTiles : tiles = [i \in 1..k |-> NullStyle]
  /\ listStyle = [p \in ListProps |-> Null]
  /\ hasTiles = TRUE
  /\ last = Call("new", "", NoValue, NoInitArgs, 0, NoPlacement, <<>>)
  /\ calls = 0
  /\ hist = [dirs |-> {}, early |-> FALSE]
  /\ swap = Pass("init", 1, 0, "none")
  /\ line = Unused
  /\ tab = Unused
  /\ menu = Unused
  /\ sch = Unused

\* the layout pass starts: styler.init(gutterSize, tracker, cols, direction);
\* an init that throws ends the pass
LayoutInit ==
  /\ swap.phase = "init"
  /\ \E a \in InitArgs :
       /\ styler' = StylerAfterInit(styler, a)
       /\ last' = Call("init", IF InitThrows(styler) THEN "invalid rowHeight" ELSE "",
                       NoValue, a, 0, NoPlacement, <<>>)
  /\ swap' = [swap EXCEPT !.phase = IF InitThrows(styler) THEN "failed"
                                    ELSE AfterTile(0),
                          !.next = 1]
  /\ UNCHANGED <<tiles, listStyle, hasTiles, calls, hist>>
  /\ UNCHANGED <<line, tab, menu, sch>>

\* the layout pass styles its next tile: styler.setStyle(tile, row, col)
LayoutTile ==
  /\ swap.phase = "tiles"
  /\ \E at \in SwapPlacements :
       LET tile == [id |-> swap.next, rowspan |-> at.rowspan, colspan |-> at.colspan]
           ws == setStyle(styler, tile, at.rowIndex, at.colIndex)
       IN  /\ tiles' = ApplyTiles(tiles, ws)
           /\ last' = Call("setStyle", "", NoValue, NoInitArgs, swap.next, at, ws)
  /\ styler' = StylerAfterSetStyle(styler)
  /\ swap' = [swap EXCEPT !.phase = AfterTile(swap.next), !.next = @ + 1]
  /\ UNCHANGED <<listStyle, hasTiles, calls, hist>>
  /\ UNCHANGED <<line, tab, menu, sch>>

\* the layout pass ends: list._setListStyle(styler.getComputedHeight())
LayoutHeight ==
  /\ swap.phase = "height"
  /\ LET ws == setListStyle(getComputedHeight(styler))
     IN  /\ listStyle' = ApplyList(listStyle, ws)
         /\ last' = Call("getComputedHeight", "", NoValue, NoInitArgs, 0,
                         NoPlacement, ws)
  /\ swap' = [swap EXCEPT !.phase = "done"]
  /\ UNCHANGED <<styler, tiles, hasTiles, calls, hist>>
  /\ UNCHANGED <<line, tab, menu, sch>>

\* the row height is given a value of another kind: the old styler resets
\* the list and the new styler is constructed; a layout pass follows
SetRowHeight ==
  /\ swap.phase \in {"done", "failed"}
  /\ swap.swaps < MaxSwaps
  /\ LET ws == reset(styler, Len(tiles), hasTiles)
     IN  /\ listStyle' = ApplyList(listStyle, ws)
         /\ tiles' = ApplyTiles(tiles, ws)
         /\ last' = Call("reset", "", NoValue, NoInitArgs, 0, NoPlacement, ws)
  /\ \E new \in NewStylers :
       /\ new.kind # styler.kind
       /\ styler' = new
  /\ swap' = Pass("init", 1, swap.swaps + 1, styler.kind)
  /\ UNCHANGED <<hasTiles, calls, hist>>
  /\ UNCHANGED <<line, tab, menu, sch>>

SwapNext ==
  \/ LayoutInit
  \/ LayoutTile
  \/ LayoutHeight
  \/ SetRowHeight

SwapSpec == SwapInit /\ [][SwapNext]_vars

(***************************************************************************)
(* The units below have nothing to do with the grid list: their             *)
(* specifications keep its variables at fixed values.                       *)
(***************************************************************************)
GridUnused ==
  /\ styler = NoStyler
  /\ tiles = <<>>
  /\ listStyle = [p \in ListProps |-> Null]
  /\ hasTiles = FALSE
  /\ last = Call("none", "", NoValue, NoInitArgs, 0, NoPlacement, <<>>)
  /\ calls = 0
  /\ hist = [dirs |-> {}, early |-> FALSE]
  /\ swap = Unused

(***************************************************************************)
(* setLines(lines, element, prefix): the line classes of a host element.    *)
(***************************************************************************)
\* lines a query list holds at most
MaxLines == 4

\* change emissions of the query list
MaxChanges == 3

\* the prefix argument of setLines ('mat' is its default)
Prefixes == {"mat", "mdc"}

\* classes the host element can carry before setLines is called
HostClasses == {"mat-list-item", "mat-2-line", "mat-multi-line"}

\* setClass(element, className, isAdd): the class list afterwards
setClass(classList, className, isAdd) ==
  IF isAdd THEN classList \cup {className} ELSE classList \ {className}

\* mutant of LinesNext: the three classes are not removed first
LinesNextNoRemove(classList, length, prefix) ==
  IF length = 2 \/ length = 3
    THEN setClass(classList, prefix \o "-" \o ToString(length) \o "-line", TRUE)
    ELSE IF length > 3
      THEN setClass(classList, prefix \o "-multi-line", TRUE)
      ELSE classList

\* the subscriber of setLines, called with a query list of this length: the
\* class list afterwards
LinesNext(classList, length, prefix) ==
  LET c1 == setClass(classList, prefix \o "-2-line", FALSE)
      c2 == setClass(c1, prefix \o "-3-line", FALSE)
      c3 == setClass(c2, prefix \o "-multi-line", FALSE)
  IN  IF length = 2 \/ length = 3
        THEN setClass(c3, prefix \o "-" \o ToString(length) \o "-line", TRUE)
        ELSE IF length > 3
          THEN setClass(c3, prefix \o "-multi-line", TRUE)
          ELSE c3

\* a host element and a query list, before setLines is called
LineInit ==
  /\ \E cl \in SUBSET HostClasses, n \in 0..MaxLines :
       line = [classList |-> cl, length |-> n, before |-> -1, prefix |-> "",
               subscribed |-> FALSE, changes |-> 0]
  /\ GridUnused
  /\ tab = Unused
  /\ menu = Unused
  /\ sch = Unused

\* setLines(lines, element, prefix): startWith(lines) hands the query list to
\* the subscriber at once
SetLines ==
  /\ ~line.subscribed
  /\ \E prefix \in Prefixes :
       line' = [line EXCEPT !.classList = LinesNext(@, line.length, prefix),
                            !.prefix = prefix,
                            !.subscribed = TRUE]
  /\ UNCHANGED <<gridVars, tab, menu, sch>>

\* lines.changes emits the query list, which now has n lines
LinesChange ==
  /\ line.subscribed
  /\ line.changes < MaxChanges
  /\ \E n \in 0..MaxLines :
       line' = [line EXCEPT !.classList = LinesNext(@, n, line.prefix),
                            !.length = n,
                            !.before = line.length,
                            !.changes = @ + 1]
  /\ UNCHANGED <<gridVars, tab, menu, sch>>

LineNext ==
  \/ SetLines
  \/ LinesChange

LineSpec == LineInit /\ [][LineNext]_vars

(***************************************************************************)
(* mixinTabIndex(base, defaultTabIndex): an instance of the class it makes. *)
(***************************************************************************)
\* reads and writes of tabIndex and disabled on one instance
MaxTabOps == 3

\* the defaultTabIndex argument of mixinTabIndex (0 is its default)
TabDefaults == {0, 2}

\* JavaScript values
JsNumber(n) == [t |-> "number", n |-> n, s |-> <<>>]

JsNaN == [t |-> "NaN", n |-> 0, s |-> <<>>]

JsString(s) == [t |-> "string", n |-> 0, s |-> s]

JsNull == [t |-> "null", n |-> 0, s |-> <<>>]

JsUndefined == [t |-> "undefined", n |-> 0, s |-> <<>>]

\* nothing was assigned yet
NotSet == [t |-> "none", n |-> 0, s |-> <<>>]

\* the values assigned to tabIndex
TabValues ==
  { JsNumber(3), JsNumber(0), JsNumber(-1), JsNaN, JsString(<<"7">>),
    JsString(<<"x">>), JsString(<<"7", "p", "x">>), JsNull, JsUndefined }

\* Number(s) is NaN for a string of the model: it is not made of digits only
\* (the empty string is 0)
NumberIsNaN(s) == \E i \in 1..Len(s) : s[i] \notin Digit

\* _isNumberValue(value) of @angular/cdk/coercion:
\* !isNaN(parseFloat(value)) && !isNaN(Number(value))
IsNumberValue(v) ==
  CASE v.t = "number" -> TRUE
    [] v.t = "string" -> parseFloat(v.s) # NaN /\ ~NumberIsNaN(v.s)
    [] OTHER -> FALSE

\* coerceNumberProperty(value) of @angular/cdk/coercion:
\* _isNumberValue(value) ? Number(value) : 0
coerceNumberProperty(v) ==
  IF IsNumberValue(v)
    THEN IF v.t = "number" THEN v.n ELSE DigitsVal(v.s, 1, Len(v.s))
    ELSE 0

\* get tabIndex()
GetTabIndex(t) == IF t.disabled THEN -1 ELSE t._tabIndex

\* mutant of TabIndexAfterSet: null and undefined are coerced like the rest
TabIndexAfterSetCoerceAll(value, defaultTabIndex) == coerceNumberProperty(value)

\* set tabIndex(value): the _tabIndex it stores
TabIndexAfterSet(value, defaultTabIndex) ==
  IF value.t \notin {"null", "undefined"}
    THEN coerceNumberProperty(value)
    ELSE defaultTabIndex

\* the constructor: super(...args) leaves the instance enabled or disabled,
\* then _tabIndex is the default
TabInit ==
  /\ \E d \in TabDefaults, dis \in BOOLEAN :
       tab = [_tabIndex |-> d, disabled |-> dis, defaultTabIndex |-> d,
              given |-> NotSet, op |-> "new", read |-> 0, ops |-> 0]
  /\ GridUnused
  /\ line = Unused
  /\ menu = Unused
  /\ sch = Unused

\* a read of instance.tabIndex
ReadTabIndex ==
  /\ tab.ops < MaxTabOps
  /\ tab' = [tab EXCEPT !.op = "get", !.read = GetTabIndex(tab), !.ops = @ + 1]
  /\ UNCHANGED <<gridVars, line, menu, sch>>

\* instance.tabIndex = value
WriteTabIndex ==
  /\ tab.ops < MaxTabOps
  /\ \E value \in TabValues :
       tab' = [tab EXCEPT !._tabIndex = TabIndexAfterSet(value, tab.defaultTabIndex),
                          !.given = value,
                          !.op = "set",
                          !.ops = @ + 1]
  /\ UNCHANGED <<gridVars, line, menu, sch>>

\* instance.disabled = b, a property of the base class
SetDisabled ==
  /\ tab.ops < MaxTabOps
  /\ \E b \in BOOLEAN :
       tab' = [tab EXCEPT !.disabled = b, !.op = "disabled", !.ops = @ + 1]
  /\ UNCHANGED <<gridVars, line, menu, sch>>

TabNext ==
  \/ ReadTabIndex
  \/ WriteTabIndex
  \/ SetDisabled

TabSpec == TabInit /\ [][TabNext]_vars

(***************************************************************************)
(* MatMenuHarness: clickItem on a page with a menu, a submenu and a submenu *)
(* of that.  The page answers clicks as the menu trigger does: a click on   *)
(* the root trigger toggles the menu unless it is disabled, a click on an   *)
(* item that triggers a submenu opens it, a click on any other item closes  *)
(* every menu, and ESCAPE on the root panel closes every menu.              *)
(***************************************************************************)
\* filters one clickItem call is given at most
MaxFilters == 3

\* clickItem calls of one test
MaxMenuCalls == 2

\* the menu the test's harness is for, and the menus of the page
Root == 1

MenuIds == 1..3

\* the items of each menu in document order: text, and the menu the item
\* triggers (0: none)
MenuItem(text, submenu) == [text |-> text, submenu |-> submenu]

Items(m) ==
  CASE m = 1 -> << MenuItem("a", 0), MenuItem("b", 2), MenuItem("b", 0) >>
    [] m = 2 -> << MenuItem("c", 0), MenuItem("d", 0), MenuItem("d", 3),
                  MenuItem("e", 3) >>
    [] m = 3 -> << MenuItem("a", 0) >>

\* item filters: {text: ...}, and {} written ""
Filters == {"a", "b", "d", "e", "z", ""}

RECURSIVE FilterSeqs(_)
FilterSeqs(n) ==
  IF n = 0 THEN { <<>> }
  ELSE { <<f>> \o fs : f \in Filters, fs \in FilterSeqs(n - 1) }

AllClosed == [m \in MenuIds |-> FALSE]

\* (await this.host()).click() of the harness of menu m
TriggerClick(opened, disabled, m) ==
  IF m = Root
    THEN IF disabled THEN opened
         ELSE IF opened[Root] THEN AllClosed
         ELSE [opened EXCEPT ![Root] = TRUE]
    ELSE [opened EXCEPT ![m] = TRUE]

\* MatMenuItemHarness.click() on item i of menu m
ItemClick(opened, m, i) ==
  IF Items(m)[i].submenu # 0
    THEN [opened EXCEPT ![Items(m)[i].submenu] = TRUE]
    ELSE AllClosed

TriggerClicked(m) == [kind |-> "trigger", menu |-> m, item |-> 0]

ItemClicked(m, i) == [kind |-> "item", menu |-> m, item |-> i]

\* isOpen(): the trigger has aria-controls and the panel it names exists
isOpen(opened, m) == opened[m]

\* mutant of open: the trigger is clicked whether the menu is open or not
openAlwaysClicks(opened, disabled, m) ==
  [opened |-> TriggerClick(opened, disabled, m), log |-> <<TriggerClicked(m)>>]

\* open(): the open menus afterwards and the clicks made
open(opened, disabled, m) ==
  IF ~isOpen(opened, m)
    THEN [opened |-> TriggerClick(opened, disabled, m), log |-> <<TriggerClicked(m)>>]
    ELSE [opened |-> opened, log |-> <<>>]

\* close(): ESCAPE is sent to the panel when there is one
close(opened, m) == IF isOpen(opened, m) THEN AllClosed ELSE opened

\* MatMenuItemHarness.with({text}): whether an item matches a filter
Matches(item, filter) == filter = "" \/ item.text = filter

\* getItems(filters): the indexes of the matching items of the panel, in
\* document order; none without a panel
getItems(opened, m, filter) ==
  IF isOpen(opened, m)
    THEN SelectSeq([i \in 1..Len(Items(m)) |-> i],
                   LAMBDA i : Matches(Items(m)[i], filter))
    ELSE <<>>

\* MatMenuItemHarness.getSubmenu(): the menu of the item, 0 for null
getSubmenu(m, i) == Items(m)[i].submenu

NoCall ==
  [phase |-> "idle", at |-> 0, filters |-> <<>>, args |-> <<>>, level |-> 0,
   threw |-> "", log |-> <<>>, before |-> AllClosed]

\* clickItem(itemFilter, ...subItemFilters) on the harness of menu call.at,
\* up to its return, its throw or its call of menu.clickItem(...subItemFilters)
clickItem(mn) ==
  LET c == mn.call
      itemFilter == Head(c.filters)
      subItemFilters == Tail(c.filters)
      o == open(mn.opened, mn.disabled, c.at)
      items == getItems(o.opened, c.at, itemFilter)
  IN  IF items = <<>>
        THEN [mn EXCEPT !.opened = o.opened,
                        !.call = [c EXCEPT !.phase = "done",
                                           !.threw = "Could not find item",
                                           !.log = @ \o o.log]]
      ELSE IF subItemFilters = <<>>
        THEN [mn EXCEPT !.opened = ItemClick(o.opened, c.at, items[1]),
                        !.call = [c EXCEPT !.phase = "done",
                                           !.log = @ \o o.log
                                                     \o <<ItemClicked(c.at, items[1])>>]]
      ELSE IF getSubmenu(c.at, items[1]) = 0
        THEN [mn EXCEPT !.opened = o.opened,
                        !.call = [c EXCEPT !.phase = "done",
                                           !.threw = "does not have a submenu",
                                           !.log = @ \o o.log]]
      ELSE [mn EXCEPT !.opened = o.opened,
                      !.call = [c EXCEPT !.at = getSubmenu(c.at, items[1]),
                                         !.filters = subItemFilters,
                                         !.level = @ + 1,
                                         !.log = @ \o o.log]]

\* a page with every menu closed, its root trigger disabled or not
MenuInit ==
  /\ \E d \in BOOLEAN :
       menu = [opened |-> AllClosed, disabled |-> d, call |-> NoCall, calls |-> 0]
  /\ GridUnused
  /\ line = Unused
  /\ tab = Unused
  /\ sch = Unused

\* the test calls harness.open()
HarnessOpen ==
  /\ menu.call.phase # "running"
  /\ menu.calls < MaxMenuCalls
  /\ menu' = [menu EXCEPT !.opened = open(menu.opened, menu.disabled, Root).opened,
                          !.call = NoCall,
                          !.calls = @ + 1]
  /\ UNCHANGED <<gridVars, line, tab, sch>>

\* the test calls harness.close()
HarnessClose ==
  /\ menu.call.phase # "running"
  /\ menu.calls < MaxMenuCalls
  /\ menu' = [menu EXCEPT !.opened = close(menu.opened, Root),
                          !.call = NoCall,
                          !.calls = @ + 1]
  /\ UNCHANGED <<gridVars, line, tab, sch>>

\* the test calls harness.clickItem(itemFilter, ...subItemFilters)
CallClickItem ==
  /\ menu.call.phase # "running"
  /\ menu.calls < MaxMenuCalls
  /\ \E n \in 1..MaxFilters : \E fs \in FilterSeqs(n) :
       menu' = [menu EXCEPT !.call = [phase |-> "running", at |-> Root,
                                      filters |-> fs, args |-> fs, level |-> 1,
                                      threw |-> "", log |-> <<>>,
                                      before |-> menu.opened],
                            !.calls = @ + 1]
  /\ UNCHANGED <<gridVars, line, tab, sch>>

\* the call in progress runs clickItem on the menu it has reached
ClickItemLevel ==
  /\ menu.call.phase = "running"
  /\ menu' = clickItem(menu)
  /\ UNCHANGED <<gridVars, line, tab, sch>>

MenuNext ==
  \/ HarnessOpen
  \/ HarnessClose
  \/ CallClickItem
  \/ ClickItemLevel

MenuSpec == MenuInit /\ [][MenuNext]_vars

(***************************************************************************)
(* The address-form schematic: default_1(options) and the two rules of the  *)
(* chain it returns, run on a tree with two module files.                   *)
(***************************************************************************)
\* the module files of the tree
Modules == {"app", "other"}

\* the options of the schematic that matter here; "undefined" is an option
\* that is not given
Options ==
  [ skipImport : {"undefined", "false", "true"},
    project    : {"undefined", "app"},
    path       : {"undefined", "/other", "/none"},
    module     : {"undefined", "other"} ]

\* what a module file imports before the schematic runs
StartImports == { <<>>, <<"BrowserModule">> }

\* the imports addFormModulesToModule adds, in its order
FormModules ==
  << "MatInputModule", "MatButtonModule", "MatSelectModule", "MatRadioModule",
     "MatCardModule", "ReactiveFormsModule" >>

\* findModuleFromOptions of @angular/cdk/schematics fills in the project and
\* the path of the options it is given when they are not set
WithDefaults(o) ==
  [o EXCEPT !.project = IF @ = "undefined" THEN "app" ELSE @,
            !.path = IF @ = "undefined" THEN "/src/app" ELSE @]

\* findModuleFromOptions: the module it returns ("undefined" with skipImport,
\* "" when it throws for want of a module in the path)
FindModule(o) ==
  IF o.skipImport = "true" THEN "undefined"
  ELSE IF o.module # "undefined" THEN o.module
  ELSE CASE WithDefaults(o).path = "/src/app" -> "app"
         [] WithDefaults(o).path = "/other" -> "other"
         [] OTHER -> ""

\* addModuleImportToModule(host, modulePath, moduleName, src)
addModuleImportToModule(tree, modulePath, moduleName) ==
  [tree EXCEPT ![modulePath] = Append(@, moduleName)]

\* mutant of default_1: buildComponent is given the options themselves
default_1NoCopy(options) ==
  [ chain |-> << "buildComponent",
                 IF options.skipImport = "true" THEN "noop"
                 ELSE "addFormModulesToModule" >>,
    arg   |-> "options",
    copy  |-> options ]

\* default_1(options): the chain it returns, the object buildComponent is
\* given (a copy made by Object.assign) and that object's content
default_1(options) ==
  [ chain |-> << "buildComponent",
                 IF options.skipImport = "true" THEN "noop"
                 ELSE "addFormModulesToModule" >>,
    arg   |-> "copy",
    copy  |-> options ]

\* the rule addFormModulesToModule(options) returns, run on a tree: the tree
\* afterwards
addFormModulesToModule(tree, options) ==
  LET modulePath == FindModule(options)
      t1 == addModuleImportToModule(tree, modulePath, "MatInputModule")
      t2 == addModuleImportToModule(t1, modulePath, "MatButtonModule")
      t3 == addModuleImportToModule(t2, modulePath, "MatSelectModule")
      t4 == addModuleImportToModule(t3, modulePath, "MatRadioModule")
      t5 == addModuleImportToModule(t4, modulePath, "MatCardModule")
  IN  addModuleImportToModule(t5, modulePath, "ReactiveFormsModule")

\* buildComponent of @angular/cdk/schematics, run on a tree with the options
\* object o it was given: it fills in project, path and module of o, and
\* declares the component in the module unless skipImport is set
BuildComponentOptions(o) ==
  [WithDefaults(o) EXCEPT !.module = IF FindModule(o) = "undefined" THEN "" ELSE FindModule(o)]

BuildComponentTree(tree, o) ==
  IF FindModule(o) = "undefined" THEN tree
  ELSE addModuleImportToModule(tree, FindModule(o), "AddressFormComponent")

\* a tree and the options of a run, before default_1 is called
SchInit ==
  /\ \E o \in Options, a \in StartImports, b \in StartImports :
       LET tree == [m \in Modules |-> IF m = "app" THEN a ELSE b]
       IN  sch = [ options |-> o, given |-> o, copy |-> o, arg |-> "",
                   tree |-> tree, start |-> tree, built |-> tree,
                   chain |-> <<>>, log |-> <<>>, status |-> "new" ]
  /\ GridUnused
  /\ line = Unused
  /\ tab = Unused
  /\ menu = Unused

\* the schematic's factory is called: default_1(options)
CallDefault ==
  /\ sch.status = "new"
  /\ LET r == default_1(sch.options)
     IN  sch' = [sch EXCEPT !.chain = r.chain, !.arg = r.arg, !.copy = r.copy,
                            !.given = sch.options, !.start = sch.tree,
                            !.built = sch.tree, !.log = <<>>,
                            !.status = "chained"]
  /\ UNCHANGED <<gridVars, line, tab, menu>>

\* chain runs its first rule, buildComponent, on the object it was given; a
\* rule that throws ends the chain
RunBuildComponent ==
  /\ sch.status = "chained"
  /\ LET o == IF sch.arg = "copy" THEN sch.copy ELSE sch.options
         threw == FindModule(o) = ""
         after == IF threw THEN WithDefaults(o) ELSE BuildComponentOptions(o)
     IN  sch' = [sch EXCEPT !.copy = IF sch.arg = "copy" THEN after ELSE @,
                            !.options = IF sch.arg = "copy" THEN @ ELSE after,
                            !.tree = IF threw THEN @ ELSE BuildComponentTree(@, o),
                            !.built = IF threw THEN @ ELSE BuildComponentTree(@, o),
                            !.log = Append(@, sch.chain[1]),
                            !.status = IF threw THEN "failed" ELSE "built"]
  /\ UNCHANGED <<gridVars, line, tab, menu>>

\* chain runs its second rule: noop(), or the rule of addFormModulesToModule,
\* whose findModuleFromOptions is given the caller's options
RunSecondRule ==
  /\ sch.status = "built"
  /\ sch' = [sch EXCEPT !.options = IF sch.chain[2] = "noop" THEN @ ELSE WithDefaults(@),
                        !.tree = IF sch.chain[2] = "noop" THEN @
                                 ELSE addFormModulesToModule(@, sch.options),
                        !.log = Append(@, sch.chain[2]),
                        !.status = "done"]
  /\ UNCHANGED <<gridVars, line, tab, menu>>

SchNext ==
  \/ CallDefault
  \/ RunBuildComponent
  \/ RunSecondRule

SchSpec == SchInit /\ [][SchNext]_vars

(***************************************************************************)
(* Properties.  The expected values are written out from the statements,    *)
(* not through the operators that model the methods they are about.         *)
(***************************************************************************)
\* the vertical properties a styler of this kind writes on a tile
VerticalPair(kind) ==
  IF kind = "ratio" THEN {"marginTop", "paddingTop"} ELSE {"top", "height"}

\* the property a styler of this kind computes for the list element
ContainerProps(kind) ==
  CASE kind = "fixed" -> {"height"}
    [] kind = "ratio" -> {"paddingBottom"}
    [] OTHER -> {}

\* init has run on the styler
Initialized(s) == s._gutterSize # Undefined

\* 100 / columnCount and (columnCount - 1) / columnCount for the stored
\* column count (NaN while it is undefined)
ExpPercentWidth(s) == IF s._cols.d = 0 THEN NaN ELSE Num(100, s._cols.n)

ExpGutterFraction(s) == IF s._cols.d = 0 THEN NaN ELSE Num(s._cols.n - 1, s._cols.n)

\* (sizePercent% - (gutterSize * gutterFraction))
ExpBase(g, sizePercent, gutterFraction) ==
  <<"(">> \o NumStr(sizePercent) \o <<"% - (">> \o g \o <<" * ">>
    \o NumStr(gutterFraction) \o <<"))">>

\* '0', or calc((baseSize + gutterSize) * offset)
ExpPosition(g, baseSize, offset) ==
  IF offset = 0 THEN <<"0">>
  ELSE <<"calc(", "(">> \o baseSize \o <<" + ">> \o g
         \o <<") * ", ToString(offset), ")">>

\* (baseSize * span) + ((span - 1) * gutterSize)
ExpSize(g, baseSize, span) ==
  <<"(">> \o baseSize \o <<" * ", ToString(span), ") + (", ToString(span - 1),
    " * ">> \o g \o <<")">>

\* the base size of a row for the styler s
RowBase(s) ==
  CASE s.kind = "fixed" -> s.fixedRowHeight
    [] s.kind = "ratio" -> s.baseTileHeight
    [] s.kind = "fit" -> FitBaseTileHeight(s)

\* the writes of the last call to the property prop
WritesTo(prop) == { i \in 1..Len(last.writes) : last.writes[i].prop = prop }

\* the number of ':' in a string
Colons(v) == Cardinality({ i \in 1..Len(v) : v[i] = ":" })

\* the number a decimal numeral of one digit stands for
NumeralVal(str) == CHOOSE k \in 0..9 : ToString(k) = str

C3_RatioPartsChecked ==
  last.op = "newRatio" =>
    /\ (last.threw = "invalid ratio") = (Colons(last.value) # 1)
    /\ last.threw \in {"", "invalid ratio"}
    /\ last.threw # "" => styler.kind = "none" /\ styler.rowHeightRatio = NaN
    /\ last.threw = "" => styler.kind = "ratio"

C3_Witness ==
  /\ last.op = "newRatio"
  /\ last.value = <<"3", ":", "1", ":", "2">>
  /\ last.threw = "invalid ratio"
  /\ styler.kind = "none"

\* C4 (as stated): the constructor of RatioTileStyler returns only when both
\* sides of the ':' parse as finite numbers.
C4_NonNumericRatioFails ==
  (last.op = "newRatio" /\ last.threw = "") =>
    \A i \in 1..2 : parseFloat(split(last.value)[i]).d # 0

\* C5: setStyle writes the position getTilePosition(baseWidth, colIndex) to
\* 'right' when the direction is 'rtl' and to 'left' otherwise, and never to
\* both; it writes calc(getTileSize(baseWidth, colspan)) to 'width', where
\* baseWidth is getBaseTileSize(100 / cols, (cols - 1) / cols); the two other
\* writes are those of the styler's setRowStyles.
C5_SetStyleHorizontal ==
  last.op = "setStyle" =>
    LET t == last.tile
        at == last.at
        ws == last.writes
        side == IF styler._direction = "rtl" THEN "right" ELSE "left"
        baseWidth == getBaseTileSize(styler, ExpPercentWidth(styler),
                                     ExpGutterFraction(styler))
    IN  /\ Len(ws) = 4
        /\ \A i \in 1..4 : ws[i].on = t
        /\ ws[1] = Write(t, side, getTilePosition(styler, baseWidth, at.colIndex))
        /\ ws[2] = Write(t, "width", calc(getTileSize(styler, baseWidth, at.colspan)))
        /\ Cardinality(WritesTo("left") \cup WritesTo("right")) = 1
        /\ {ws[3].prop, ws[4].prop} = VerticalPair(styler.kind)
        /\ SubSeq(ws, 3, 4)
             = LET tile == [id |-> t, rowspan |-> at.rowspan, colspan |-> at.colspan]
               IN  CASE styler.kind = "fixed" -> FixedSetRowStyles(styler, tile, at.rowIndex)
                     [] styler.kind = "ratio" ->
                          RatioSetRowStyles(styler, tile, at.rowIndex,
                                            ExpPercentWidth(styler),
                                            ExpGutterFraction(styler))
                     [] styler.kind = "fit" -> FitSetRowStyles(styler, tile, at.rowIndex)
        /\ \A i \in 1..4 : tiles[t][ws[i].prop] = ws[i].value

C5_Witness ==
  /\ last.op = "setStyle"
  /\ styler._direction = "rtl"
  /\ last.at.colIndex = 2
  /\ tiles[last.tile]["right"] # Null
  /\ tiles[last.tile]["left"] = Null
  /\ tiles[last.tile]["width"] # Null

\* C6: every position setStyle writes (horizontal from the column index,
\* vertical from the row index) is '0' for the index 0 and
\* calc((base + gutterSize) * index) otherwise, with the stored gutter size,
\* which ends in a unit once init has stored it.
C6_TilePosition ==
  /\ Initialized(styler) =>
       styler._gutterSize[Len(styler._gutterSize)] \in Letter \cup {"%"}
  /\ last.op = "setStyle" =>
       LET ws == last.writes
           g == styler._gutterSize
           baseWidth == ExpBase(g, ExpPercentWidth(styler), ExpGutterFraction(styler))
       IN  /\ ws[1].value = ExpPosition(g, baseWidth, last.at.colIndex)
           /\ ws[3].value = ExpPosition(g, RowBase(styler), last.at.rowIndex)
           /\ last.at.colIndex = 0 => ws[1].value = <<"0">>
           /\ last.at.rowIndex = 0 => ws[3].value = <<"0">>

C6_Witness ==
  /\ last.op = "setStyle"
  /\ styler._gutterSize = <<"1", "p", "x">>
  /\ last.at.colIndex = 0
  /\ last.at.rowIndex = 2
  /\ \E side \in {"left", "right"} : tiles[last.tile][side] = <<"0">>
  /\ \E p \in {"top", "marginTop"} :
       /\ tiles[last.tile][p] # Null
       /\ Head(tiles[last.tile][p]) = "calc("

\* C7: the base size in every width setStyle writes is
\* (percent% - (gutterSize * fraction)) with percent = 100 / cols and
\* fraction = (cols - 1) / cols of the stored configuration, so the fraction
\* is 0 for a single column; the ratio styler stores the same expression for
\* its row percent; computing it changes no field of the styler (setStyle
\* changes at most baseTileHeight, which setRowStyles assigns).
C7_BaseTileSize ==
  [][ (last'.op = "setStyle" /\ calls' # calls) =>
        LET g == styler'._gutterSize
            baseWidth == ExpBase(g, ExpPercentWidth(styler'), ExpGutterFraction(styler'))
        IN  /\ last'.writes[2].value
                 = <<"calc(">> \o ExpSize(g, baseWidth, last'.at.colspan) \o <<")">>
            /\ styler'._cols = Int2Num(1) =>
                 baseWidth = <<"(", "100", "% - (">> \o g \o <<" * ", "0", "))">>
            /\ styler'.kind = "ratio" =>
                 styler'.baseTileHeight
                   = ExpBase(g, NumDiv(ExpPercentWidth(styler'), styler'.rowHeightRatio),
                             ExpGutterFraction(styler'))
            /\ styler' = [styler EXCEPT !.baseTileHeight = styler'.baseTileHeight]
            /\ styler'.kind # "ratio" => styler' = styler ]_vars

C7_Witness ==
  /\ last.op = "setStyle"
  /\ styler._cols = Int2Num(1)
  /\ styler._gutterSize = <<"1", "p", "x">>
  /\ tiles[last.tile]["width"]
       = <<"calc(", "(", "(", "100", "% - (", "1", "p", "x", " * ", "0", "))",
           " * ", "1", ") + (", "0", " * ", "1", "p", "x", ")", ")">>

\* C8: every size setStyle writes is calc((base * span) + ((span - 1) *
\* gutterSize)) for the span of the tile; read as arithmetic, with any values
\* for the base and the gutter, it is span bases plus span - 1 gutters, which
\* for the span 1 is the base.
C8_TileSize ==
  last.op = "setStyle" =>
    LET ws == last.writes
        g == styler._gutterSize
        baseWidth == ExpBase(g, ExpPercentWidth(styler), ExpGutterFraction(styler))
        Arith(v, m, span) ==
          \A B \in 1..3, G \in 1..3 :
            LET val == B * NumeralVal(v[m + 4]) + NumeralVal(v[m + 6]) * G
            IN  /\ val = span * B + (span - 1) * G
                /\ span = 1 => val = B
    IN  /\ ws[2].value = <<"calc(">> \o ExpSize(g, baseWidth, last.at.colspan) \o <<")">>
        /\ ws[4].value
             = <<"calc(">> \o ExpSize(g, RowBase(styler), last.at.rowspan) \o <<")">>
        /\ Arith(ws[2].value, Len(baseWidth), last.at.colspan)
        /\ Arith(ws[4].value, Len(RowBase(styler)), last.at.rowspan)

C8_Witness ==
  /\ last.op = "setStyle"
  /\ Initialized(styler)
  /\ last.at.colspan = 3
  /\ last.at.rowspan = 1
  /\ tiles[last.tile]["width"] = last.writes[2].value

\* C9: setStyle of an initialized FixedTileStyler writes
\* getTilePosition(fixedRowHeight, rowIndex) to 'top' and
\* calc(getTileSize(fixedRowHeight, rowspan)) to 'height', with the row
\* height as init normalized it, and writes neither 'marginTop' nor
\* 'paddingTop'.
C9_FixedRowStyles ==
  (last.op = "setStyle" /\ styler.kind = "fixed" /\ Initialized(styler)) =>
    LET t == last.tile
        ws == last.writes
        g == styler._gutterSize
        h == styler.fixedRowHeight
    IN  /\ h[Len(h)] \in Letter \cup {"%"}
        /\ ws[3] = Write(t, "top", ExpPosition(g, h, last.at.rowIndex))
        /\ ws[4] = Write(t, "height",
                         <<"calc(">> \o ExpSize(g, h, last.at.rowspan) \o <<")">>)
        /\ WritesTo("marginTop") \cup WritesTo("paddingTop") = {}
        /\ WritesTo("top") = {3} /\ WritesTo("height") = {4}
        /\ tiles[t]["top"] = ws[3].value
        /\ tiles[t]["height"] = ws[4].value

C9_Witness ==
  /\ last.op = "setStyle"
  /\ styler.kind = "fixed"
  /\ styler.fixedRowHeight = <<"1", "0", "0", "p", "x">>
  /\ styler._gutterSize = <<"4", "p", "x">>
  /\ last.at.rowIndex = 1
  /\ tiles[last.tile]["top"]
       = <<"calc(", "(", "1", "0", "0", "p", "x", " + ", "4", "p", "x", ") * ", "1", ")">>
  /\ tiles[last.tile]["height"] # Null

\* C10: the ratio of "n:d" is n / d, so "3:1" turns a column percent of 30
\* into a row percent of 10; setStyle of a RatioTileStyler takes
\* percentWidthPerColumn / ratio as the row percent, builds the base with the
\* gutter fraction of the columns, and writes getTilePosition(base, rowIndex)
\* to 'marginTop' and calc(getTileSize(base, rowspan)) to 'paddingTop', and
\* neither 'top' nor 'height'.
C10_RatioRowStyles ==
  /\ RatioPercentHeightPerTile(NewRatioTileStyler(<<"3", ":", "1">>), Int2Num(30))
       = Int2Num(10)
  /\ (last.op = "newRatio" /\ last.value = <<"3", ":", "1">>) =>
       styler.rowHeightRatio = Num(3, 1)
  /\ (last.op = "newRatio" /\ last.value = <<"1", ":", "2">>) =>
       styler.rowHeightRatio = Num(1, 2)
  /\ (last.op = "setStyle" /\ styler.kind = "ratio") =>
       LET t == last.tile
           ws == last.writes
           g == styler._gutterSize
           r == styler.rowHeightRatio
           w == ExpPercentWidth(styler)
           rowPercent ==
             IF r.d = 0 \/ w.d = 0 \/ r.n = 0 THEN NumDiv(w, r)
             ELSE Num(w.n * r.d, w.d * r.n)
           base == ExpBase(g, rowPercent, ExpGutterFraction(styler))
       IN  /\ styler.baseTileHeight = base
           /\ ws[3] = Write(t, "marginTop", ExpPosition(g, base, last.at.rowIndex))
           /\ ws[4] = Write(t, "paddingTop",
                            <<"calc(">> \o ExpSize(g, base, last.at.rowspan) \o <<")">>)
           /\ WritesTo("top") \cup WritesTo("height") = {}
           /\ tiles[t]["marginTop"] = ws[3].value
           /\ tiles[t]["paddingTop"] = ws[4].value

C10_Witness ==
  /\ last.op = "setStyle"
  /\ styler.kind = "ratio"
  /\ styler.rowHeightRatio = Num(3, 1)
  /\ styler._cols = Int2Num(3)
  /\ last.at.rowIndex = 1
  /\ styler.baseTileHeight
       = <<"(", "100", "/", "9", "% - (", "4", "p", "x", " * ", "2", "/", "3", "))">>
  /\ tiles[last.tile]["marginTop"] # Null
  /\ tiles[last.tile]["paddingTop"] # Null

\* C11: setStyle of a FitTileStyler takes 100 / totalRowSpan as the row
\* percent and (rowCount - 1) / rowCount as the gutter fraction, both of the
\* tracker that init stored, and writes getTilePosition(base, rowIndex) to
\* 'top' and calc(getTileSize(base, rowspan)) to 'height' for the base built
\* from them, and neither 'marginTop' nor 'paddingTop'.
C11_FitRowStyles ==
  (last.op = "setStyle" /\ styler.kind = "fit") =>
    LET t == last.tile
        ws == last.writes
        g == styler._gutterSize
        base == ExpBase(g, Num(100, styler._rowspan),
                        Num(styler._rows - 1, styler._rows))
    IN  /\ ws[3] = Write(t, "top", ExpPosition(g, base, last.at.rowIndex))
        /\ ws[4] = Write(t, "height",
                         <<"calc(">> \o ExpSize(g, base, last.at.rowspan) \o <<")">>)
        /\ WritesTo("marginTop") \cup WritesTo("paddingTop") = {}
        /\ WritesTo("top") = {3} /\ WritesTo("height") = {4}
        /\ tiles[t]["top"] = ws[3].value
        /\ tiles[t]["height"] = ws[4].value

C11_Witness ==
  /\ last.op = "setStyle"
  /\ styler.kind = "fit"
  /\ styler._rows = 2
  /\ styler._rowspan = 3
  /\ last.at.rowIndex = 1
  /\ last.at.rowspan = 1
  /\ tiles[last.tile]["top"]
       = <<"calc(", "(", "(", "100", "/", "3", "% - (", "4", "p", "x", " * ",
           "1", "/", "2", "))", " + ", "4", "p", "x", ") * ", "1", ")">>
  /\ tiles[last.tile]["height"]
       = <<"calc(", "(", "(", "100", "/", "3", "% - (", "4", "p", "x", " * ",
           "1", "/", "2", "))", " * ", "1", ") + (", "0", " * ", "4", "p", "x",
           ")", ")">>

\* C12: getComputedHeight returns null for a FitTileStyler, so the list
\* assigns nothing; for a FixedTileStyler it returns 'height' and for a
\* RatioTileStyler 'paddingBottom', with the value
\* calc(rowspan * getTileSize(rowBase, 1) + gutterSize * (rowspan - 1)) for
\* the stored total row span and the row base of the styler; read as
\* arithmetic, with any values for the base and the gutter, it is rowspan
\* bases plus rowspan - 1 gutters, the position plus the extent of any tile
\* that ends on the last row.
C12_ComputedHeight ==
  last.op = "getComputedHeight" =>
    /\ styler.kind = "fit" => getComputedHeight(styler) = Null /\ last.writes = <<>>
    /\ styler.kind # "fit" =>
         LET ws == last.writes
             g == styler._gutterSize
             R == styler._rowspan
             base == IF styler.kind = "fixed" THEN styler.fixedRowHeight
                     ELSE styler.baseTileHeight
             prop == IF styler.kind = "fixed" THEN "height" ELSE "paddingBottom"
             v == ws[1].value
             L == Len(base)
             Lg == Len(g)
         IN  /\ Len(ws) = 1
             /\ ws[1].on = 0
             /\ ws[1].prop = prop
             /\ v = <<"calc(", ToString(R), " * ">> \o ExpSize(g, base, 1)
                      \o <<" + ">> \o g \o <<" * (", ToString(R), " - 1)", ")">>
             /\ listStyle[prop] = v
             /\ \A B \in 1..3, G \in 1..3 :
                  LET val == NumeralVal(v[2]) * (B * NumeralVal(v[6 + L]))
                               + (NumeralVal(v[8 + L]) * G)
                               + G * (NumeralVal(v[13 + L + 2 * Lg]) - 1)
                  IN  /\ val = R * B + (R - 1) * G
                      /\ \A r \in 0..(R - 1) :
                           LET k == R - r
                           IN  ((B + G) * r) + ((B * k) + ((k - 1) * G)) = val

C12_Witness ==
  /\ last.op = "getComputedHeight"
  /\ styler.kind = "fixed"
  /\ styler._rowspan = 3
  /\ listStyle["height"]
       = <<"calc(", "3", " * ", "(", "1", "0", "0", "p", "x", " * ", "1",
           ") + (", "0", " * ", "4", "p", "x", ")", " + ", "4", "p", "x",
           " * (", "3", " - 1)", ")">>
  /\ listStyle["paddingBottom"] = Null

\* the integer a decimal numeral stands for
IntOf(str) == CHOOSE k \in 0..100 : ToString(k) = str

\* the number embedded at position i of a value, and the pieces it takes
NumLen(v, i) == IF i + 1 <= Len(v) /\ v[i + 1] = "/" THEN 3 ELSE 1

NumAt(v, i) ==
  IF NumLen(v, i) = 3 THEN Num(IntOf(v[i]), IntOf(v[i + 2]))
  ELSE Int2Num(IntOf(v[i]))

\* product and sum of two finite numbers
RatMul(a, b) == Num(a.n * b.n, a.d * b.d)

RatAdd(a, b) == Num(a.n * b.d + b.n * a.d, a.d * b.d)

C14_ThreeColumnScenario ==
  ( /\ last.op = "setStyle"
    /\ styler.kind = "fixed"
    /\ styler._cols = Int2Num(3)
    /\ styler._gutterSize = <<"4", "p", "x">>
    /\ styler.fixedRowHeight = <<"1", "0", "0", "p", "x">>
    /\ last.at = [rowIndex |-> 1, colIndex |-> 2, rowspan |-> 1, colspan |-> 1] ) =>
    LET t == last.tile
        ws == last.writes
        u == ws[1].value
        h == ws[4].value
    IN  /\ ws[1].prop \in {"left", "right"}
        /\ u = <<"calc(", "(", "(", "100", "/", "3", "% - (", "4", "p", "x",
                 " * ", "2", "/", "3", "))", " + ", "4", "p", "x", ") * ", "2", ")">>
        /\ NumAt(u, 4) = Num(100, 3)
        /\ NumAt(u, 12) = Num(2, 3)
        /\ ws[3] = Write(t, "top",
                         <<"calc(", "(", "1", "0", "0", "p", "x", " + ",
                           "4", "p", "x", ") * ", "1", ")">>)
        /\ ws[4].prop = "height"
        /\ h = <<"calc(", "(", "1", "0", "0", "p", "x", " * ", "1", ") + (",
                 "0", " * ", "4", "p", "x", ")", ")">>
        /\ DigitsVal(h, 3, 3) * NumeralVal(h[9]) + NumeralVal(h[11]) * DigitsVal(h, 13, 1)
             = 100
        /\ <<h[6], h[7]>> = <<"p", "x">> /\ <<h[14], h[15]>> = <<"p", "x">>
        /\ tiles[t][ws[1].prop] = u
        /\ tiles[t]["top"] = ws[3].value
        /\ tiles[t]["height"] = h

C14_Witness ==
  /\ last.op = "setStyle"
  /\ styler.kind = "fixed"
  /\ styler._cols = Int2Num(3)
  /\ styler._gutterSize = <<"4", "p", "x">>
  /\ styler.fixedRowHeight = <<"1", "0", "0", "p", "x">>
  /\ last.at = [rowIndex |-> 1, colIndex |-> 2, rowspan |-> 1, colspan |-> 1]
  /\ tiles[last.tile]["left"] # Null
  /\ tiles[last.tile]["top"] # Null
  /\ tiles[last.tile]["height"] # Null

\* the (property, value) pairs of a sequence of writes
Pairs(ws) == [i \in 1..Len(ws) |-> <<ws[i].prop, ws[i].value>>]

\* the configuration of a styler: the fields its constructor and init store,
\* without the base that the setRowStyles of the ratio styler leaves behind
Config(s) == [s EXCEPT !.baseTileHeight = Undefined]

\* C15: the (property, value) pairs a setStyle call writes are those of the
\* configuration (the fields the constructor and init stored) and of the
\* row index, column index, rowspan and colspan of the call: they are the
\* same for every tile and whatever earlier calls left on the styler and on
\* the tiles, a call that follows a call with the same placement writes the
\* same pairs, and the call changes nothing of the configuration.
C15_StatelessAcrossTiles ==
  [][ (last'.op = "setStyle" /\ calls' # calls) =>
        LET at == last'.at
        IN  /\ \A id \in TileIds :
                 Pairs(last'.writes)
                   = Pairs(setStyle(Config(styler),
                                    [id |-> id, rowspan |-> at.rowspan,
                                     colspan |-> at.colspan],
                                    at.rowIndex, at.colIndex))
            /\ \A i \in 1..Len(last'.writes) : last'.writes[i].on = last'.tile
            /\ (last.op = "setStyle" /\ last.at = at) =>
                 Pairs(last'.writes) = Pairs(last.writes)
            /\ Config(styler') = Config(styler) ]_vars

C15_Witness ==
  /\ last.op = "setStyle"
  /\ styler.kind = "ratio"
  /\ Initialized(styler)
  /\ styler.baseTileHeight # Undefined
  /\ \E o \in DOMAIN tiles :
       /\ o # last.tile
       /\ tiles[o]["paddingTop"] # Null
       /\ tiles[o]["paddingTop"] # tiles[last.tile]["paddingTop"]
       /\ tiles[last.tile]["paddingTop"] = last.writes[4].value

\* a value with 'px' appended unless it ends in a letter or '%'
WithUnit(v) ==
  IF Len(v) >= 1 /\ v[Len(v)] \in Letter \cup {"%"} THEN v ELSE v \o <<"p", "x">>

\* C16: every init call, whatever the styler held before, leaves the gutter
\* size (with its unit), the row count, the total row span, the column count
\* and the direction of its arguments on the styler and, for a
\* FixedTileStyler, the row height with its unit, and changes no other
\* field; an init call with the arguments of the init call before it leaves
\* the styler as it was and ends as that call did, and a further init with
\* the same arguments would again leave the styler as it is.
C16_InitReplacesAndIsIdempotent ==
  [][ (last'.op = "init" /\ calls' # calls) =>
        LET a == last'.args
        IN  /\ styler'._gutterSize = WithUnit(a.gutterSize)
            /\ styler'._rows = a.rowCount
            /\ styler'._rowspan = a.rowspan
            /\ styler'._cols = Int2Num(a.cols)
            /\ styler'._direction = a.direction
            /\ styler'.kind = styler.kind
            /\ styler'.rowHeightRatio = styler.rowHeightRatio
            /\ styler'.baseTileHeight = styler.baseTileHeight
            /\ styler'.fixedRowHeight
                 = IF styler.kind = "fixed" THEN WithUnit(styler.fixedRowHeight)
                   ELSE styler.fixedRowHeight
            /\ styler.kind = "fixed" =>
                 WithUnit(styler'.fixedRowHeight) = styler'.fixedRowHeight
            /\ StylerAfterInit(styler', a) = styler'
            /\ (last.op = "init" /\ last.args = a) =>
                 styler' = styler /\ last'.threw = last.threw ]_vars

C16_Witness ==
  /\ last.op = "init"
  /\ calls >= 2
  /\ styler.kind = "fixed"
  /\ styler.fixedRowHeight = <<"1", "0", "0", "p", "x">>
  /\ styler._gutterSize = <<"1", "p", "x">>
  /\ styler._rows = 2
  /\ styler._rowspan = 2
  /\ styler._cols = Int2Num(2)
  /\ styler._direction = "ltr"
  /\ StylerAfterInit(styler, last.args) = styler

\* the styles that reset of the styler s is to clear are all null
Cleared(s) ==
  /\ \A t \in DOMAIN tiles : \A p \in VerticalPair(s.kind) : tiles[t][p] = Null
  /\ \A p \in ContainerProps(s.kind) : listStyle[p] = Null

\* the tiles and the list element after one more reset(list)
TilesAfterReset == ApplyTiles(tiles, reset(styler, Len(tiles), hasTiles))

ListAfterReset == ApplyList(listStyle, reset(styler, Len(tiles), hasTiles))

\* C17: when reset has just been called, a second reset leaves every tile
\* and the list element with the styles they have and ends as the first did;
\* and in every state where the styles that reset clears are null already,
\* reset changes no style.
C17_ResetIdempotent ==
  /\ (last.op = "reset" /\ styler.kind # "none") =>
       /\ TilesAfterReset = tiles
       /\ ListAfterReset = listStyle
       /\ (last.threw # "") = ResetThrows(styler, hasTiles)
  /\ (styler.kind # "none" /\ Cleared(styler)) =>
       /\ TilesAfterReset = tiles
       /\ ListAfterReset = listStyle

C17_Witness ==
  /\ last.op = "reset"
  /\ styler.kind = "fixed"
  /\ calls = 3
  /\ \E t \in DOMAIN tiles : tiles[t]["width"] # Null
  /\ Cleared(styler)
  /\ TilesAfterReset = tiles

\* C18 (as stated): a reset call on a list with no tiles, its tile collection
\* empty or not yet defined, returns without throwing for every styler, and
\* the styler's property of the list element is null afterwards.
C18_ResetWithoutTilesNeverThrows ==
  (last.op = "reset" /\ Len(tiles) = 0) =>
    /\ last.threw = ""
    /\ \A p \in ContainerProps(styler.kind) : listStyle[p] = Null

\* the parentheses a piece of a value closes and opens
Closes(piece) ==
  CASE piece = "))" -> 2
    [] piece \in {")", ") * ", ") + (", " - 1)"} -> 1
    [] OTHER -> 0

Opens(piece) ==
  CASE piece \in {"calc(", "(", "% - (", ") + (", " * ("} -> 1
    [] OTHER -> 0

\* the pieces i .. Len(v) - 1 of v, read with d parentheses open, never
\* close the first parenthesis of v, and leave it alone open for the last
\* piece
RECURSIVE Encloses(_, _, _)
Encloses(v, i, d) ==
  IF i >= Len(v) THEN d = 1
  ELSE /\ d - Closes(v[i]) >= 1
       /\ Encloses(v, i + 1, d - Closes(v[i]) + Opens(v[i]))

\* v is calc(...): it starts with calc( and the parenthesis that closes it
\* is its last character
Wrapped(v) ==
  /\ Len(v) >= 2
  /\ Head(v) = "calc("
  /\ v[Len(v)] = ")"
  /\ Encloses(v, 2, 1)

\* C19: every value that setStyle writes on a tile and that the list assigns
\* from getComputedHeight is the text '0' or calc(...) around the whole
\* expression; '0' is written only as a position.
C19_EmittedValuesWrapped ==
  last.op \in {"setStyle", "getComputedHeight"} =>
    \A i \in 1..Len(last.writes) :
      LET w == last.writes[i]
      IN  /\ w.value = <<"0">> \/ Wrapped(w.value)
          /\ w.value = <<"0">> =>
               w.prop \in {"left", "right", "top", "marginTop"}
          /\ IF w.on = 0 THEN listStyle[w.prop] = w.value
             ELSE tiles[w.on][w.prop] = w.value

C19_Witness ==
  /\ last.op = "setStyle"
  /\ styler.kind = "ratio"
  /\ Initialized(styler)
  /\ last.at.colIndex = 0
  /\ last.at.rowIndex = 2
  /\ last.writes[1].value = <<"0">>
  /\ Wrapped(last.writes[2].value)
  /\ Wrapped(last.writes[3].value)
  /\ Wrapped(last.writes[4].value)

\* the value ends in a unit: a letter or '%'
EndsInUnit(v) == Len(v) >= 1 /\ v[Len(v)] \in Letter \cup {"%"}

\* C20: once init has run, the stored gutter size ends in a unit, and so
\* does the row height of a FixedTileStyler; init stores a gutter size that
\* ends in a unit as it is and any other with 'px' appended; init turns the
\* row height "100" of new FixedTileStyler("100") into "100px", which matches
\* the grammar, and does not throw, and leaves the row height "100px" as it is.
C20_UnitsNormalized ==
  /\ Initialized(styler) =>
       /\ EndsInUnit(styler._gutterSize)
       /\ styler.kind = "fixed" => EndsInUnit(styler.fixedRowHeight)
  /\ last.op = "init" =>
       LET g == last.args.gutterSize
       IN  /\ EndsInUnit(g) => styler._gutterSize = g
           /\ ~EndsInUnit(g) => styler._gutterSize = g \o <<"p", "x">>
           /\ (styler.kind = "fixed"
                 /\ styler.fixedRowHeight = <<"1", "0", "0", "p", "x">>) =>
                last.threw = ""
  /\ (last.op = "newFixed" /\ last.value \in {<<"1", "0", "0">>, <<"1", "0", "0", "p", "x">>}) =>
       /\ styler.fixedRowHeight = last.value
       /\ \A a \in InitArgs :
            StylerAfterInit(styler, a).fixedRowHeight = <<"1", "0", "0", "p", "x">>
       /\ ~InitThrows(styler)
       /\ cssCalcAllowedValue(<<"1", "0", "0", "p", "x">>)

C20_Witness ==
  /\ last.op = "init"
  /\ last.threw = ""
  /\ last.args.gutterSize = <<"1">>
  /\ styler.kind = "fixed"
  /\ styler._gutterSize = <<"1", "p", "x">>
  /\ styler.fixedRowHeight = <<"1", "0", "0", "p", "x">>

\* C21 (as stated): an init call with a gutter size that, with its unit, does
\* not match the grammar of cssCalcAllowedValue throws for every styler, and
\* no styler holds a gutter size that does not match it once init has run.
C21_InvalidGutterFailsInit ==
  /\ (last.op = "init" /\ ~cssCalcAllowedValue(WithUnit(last.args.gutterSize))) =>
       last.threw # ""
  /\ Initialized(styler) => cssCalcAllowedValue(styler._gutterSize)

C24_FixedInitStoresThenThrows ==
  [][ (last'.op = "init" /\ calls' # calls) =>
        LET a == last'.args
            bad == styler.kind = "fixed"
                     /\ ~cssCalcAllowedValue(WithUnit(styler.fixedRowHeight))
        IN  /\ (last'.threw # "") = bad
            /\ last'.threw # "" =>
                 /\ styler'._gutterSize = WithUnit(a.gutterSize)
                 /\ styler'._rows = a.rowCount
                 /\ styler'._rowspan = a.rowspan
                 /\ styler'._cols = Int2Num(a.cols)
                 /\ styler'._direction = a.direction
                 /\ styler'.fixedRowHeight = WithUnit(styler.fixedRowHeight)
                 /\ ~cssCalcAllowedValue(styler'.fixedRowHeight)
                 /\ last'.writes = <<>>
                 /\ tiles' = tiles
                 /\ listStyle' = listStyle
            /\ (last.op = "init" /\ last.threw # "") =>
                 /\ last'.threw # ""
                 /\ styler'.fixedRowHeight = styler.fixedRowHeight ]_vars

C24_Witness ==
  /\ last.op = "init"
  /\ last.threw = "invalid rowHeight"
  /\ calls = 3
  /\ styler.kind = "fixed"
  /\ styler._gutterSize = <<"1", "p", "x">>
  /\ styler._cols = Int2Num(2)
  /\ styler._direction = "ltr"
  /\ styler.fixedRowHeight = <<"1", "0", "0", "!", "!", "p", "x">>
  /\ \E t \in DOMAIN tiles : tiles[t]["width"] # Null

\* the base of a row of the ratio styler s, from its configuration alone
ConfigBase(s) ==
  ExpBase(s._gutterSize, NumDiv(ExpPercentWidth(s), s.rowHeightRatio),
          ExpGutterFraction(s))

\* C25: the baseTileHeight of a RatioTileStyler changes only in a setStyle
\* call, and every setStyle call stores the base that the configuration
\* gives, whatever the tile and its placement; the configuration changes
\* only in an init call; and a getComputedHeight call that follows a
\* setStyle call assigns to 'paddingBottom' the value
\* calc(rowspan * getTileSize(base, 1) + gutterSize * (rowspan - 1)) for that
\* base, so a value of the configuration alone.
C25_RatioComputedHeight ==
  [][ /\ styler'.baseTileHeight # styler.baseTileHeight =>
           last'.op = "setStyle" /\ styler.kind = "ratio"
      /\ Config(styler') # Config(styler) => last'.op = "init"
      /\ (last'.op = "setStyle" /\ calls' # calls /\ styler.kind = "ratio") =>
           styler'.baseTileHeight = ConfigBase(styler)
      /\ (last'.op = "getComputedHeight" /\ calls' # calls
            /\ last.op = "setStyle" /\ styler.kind = "ratio") =>
           LET g == styler._gutterSize
               R == ToString(styler._rowspan)
               v == <<"calc(", R, " * ">> \o ExpSize(g, ConfigBase(styler), 1)
                      \o <<" + ">> \o g \o <<" * (", R, " - 1)", ")">>
           IN  /\ last'.writes = <<Write(0, "paddingBottom", v)>>
               /\ listStyle'["paddingBottom"] = v ]_vars

C25_Witness ==
  /\ last.op = "getComputedHeight"
  /\ styler.kind = "ratio"
  /\ styler.rowHeightRatio = Num(3, 1)
  /\ styler._cols = Int2Num(3)
  /\ listStyle["paddingBottom"]
       = <<"calc(", "3", " * ", "(", "(", "100", "/", "9", "% - (", "4", "p", "x",
           " * ", "2", "/", "3", "))", " * ", "1", ") + (", "0", " * ", "4", "p",
           "x", ")", " + ", "4", "p", "x", " * (", "3", " - 1)", ")">>

\* the writes of the last call to a side property
SideWrites ==
  { i \in 1..Len(last.writes) : last.writes[i].prop \in {"left", "right"} }

\* no tile has both 'left' and 'right' set
OneSidePerTile ==
  \A t \in DOMAIN tiles : tiles[t].left = Null \/ tiles[t].right = Null

\* C26 as stated: while every init call is given the same direction, no
\* tile has both 'left' and 'right' set, whatever calls were made.  A
\* setStyle before the first init writes 'left' (the direction is still
\* undefined), and a setStyle after init(.., 'rtl') then writes 'right'.
C26_OneSideAnySequence ==
  Cardinality(hist.dirs) <= 1 => OneSidePerTile

\* C26, amended: only setStyle writes a side, and it writes the side its
\* current direction selects; while every init call is given the same
\* direction and no setStyle ran before the first init, no tile has both
\* 'left' and 'right' set.
C26_OneSideAfterInit ==
  /\ \A i \in SideWrites :
       /\ last.op = "setStyle"
       /\ last.writes[i].on = last.tile
       /\ last.writes[i].prop = (IF styler._direction = "rtl" THEN "right" ELSE "left")
  /\ (Cardinality(hist.dirs) <= 1 /\ ~hist.early) => OneSidePerTile

\* every init was given 'rtl', no setStyle ran before the first of them, and
\* the tile styled last has 'right' and no 'left'
C26_Witness ==
  /\ hist.dirs = {"rtl"}
  /\ ~hist.early
  /\ calls = MaxCalls
  /\ last.op = "setStyle"
  /\ tiles[last.tile].right # Null
  /\ tiles[last.tile].left = Null

\* the vertical properties the stylers write on a tile
VerticalProps == {"top", "height", "marginTop", "paddingTop"}

\* C23: when the row-height policy is swapped for one of another kind
\* (old.reset(list), new.init, new.setStyle on every tile, the container
\* style from new.getComputedHeight), every tile ends with exactly the new
\* policy's vertical properties non-null and the container has no 'height'
\* or 'paddingBottom' but the one the new policy computes; right after the
\* reset, no vertical property and no container property is left.
C23_SwapLeavesOnlyNewPolicy ==
  /\ (swap.swaps > 0 /\ swap.phase = "done") =>
       /\ swap.from # styler.kind
       /\ \A t \in DOMAIN tiles : \A p \in VerticalProps :
            (tiles[t][p] # Null) <=> (p \in VerticalPair(styler.kind))
       /\ \A p \in ListProps :
            listStyle[p] # Null => p \in ContainerProps(styler.kind)
  /\ (swap.swaps > 0 /\ swap.phase = "init") =>
       /\ \A t \in DOMAIN tiles : \A p \in VerticalProps : tiles[t][p] = Null
       /\ \A p \in ListProps : listStyle[p] = Null

\* a ratio policy that styled every tile and the container was swapped for a
\* fixed one, whose layout pass is complete
C23_Witness ==
  /\ swap.swaps > 0
  /\ swap.phase = "done"
  /\ swap.from = "ratio"
  /\ styler.kind = "fixed"
  /\ Len(tiles) = NumTiles
  /\ listStyle.height # Null
  /\ \A t \in DOMAIN tiles : tiles[t].top # Null /\ tiles[t].marginTop = Null

\* the line classes of the host element for the prefix in use
LineClassesOn ==
  line.classList \cap { line.prefix \o "-2-line", line.prefix \o "-3-line",
                        line.prefix \o "-multi-line" }

\* C27: from the subscription on, and after every change emission, the host
\* element has '<prefix>-2-line' iff the count is 2, '<prefix>-3-line' iff it
\* is 3, '<prefix>-multi-line' iff it is above 3, none of the three when it
\* is at most 1, and so at most one of the three, whatever the element
\* carried before and whatever the earlier counts were.
C27_LineClassesFollowCount ==
  line.subscribed =>
    /\ (line.prefix \o "-2-line") \in line.classList <=> line.length = 2
    /\ (line.prefix \o "-3-line") \in line.classList <=> line.length = 3
    /\ (line.prefix \o "-multi-line") \in line.classList <=> line.length > 3
    /\ line.length <= 1 => LineClassesOn = {}
    /\ Cardinality(LineClassesOn) <= 1

\* the count went from 2 to more than 3: 'mat-multi-line' replaced
\* 'mat-2-line'
C27_Witness ==
  /\ line.subscribed
  /\ line.prefix = "mat"
  /\ line.changes >= 2
  /\ line.before = 2
  /\ line.length > 3
  /\ "mat-multi-line" \in line.classList
  /\ "mat-2-line" \notin line.classList

\* the value a read of an enabled instance is said to return: the last
\* value assigned, compared as JavaScript's == compares a number with it, or
\* the default when nothing, null or undefined was assigned
ReportsGiven(t, read) ==
  CASE t.given.t \in {"none", "null", "undefined"} -> read = t.defaultTabIndex
    [] t.given.t = "number" -> read = t.given.n
    [] t.given.t = "string" ->
         ~NumberIsNaN(t.given.s) /\ read = DigitsVal(t.given.s, 1, Len(t.given.s))
    [] OTHER -> FALSE

\* what the three operations of C28 do in one step: a read returns -1 when
\* the instance is disabled and the stored value otherwise, an assignment of
\* null or undefined stores the default, and a change of disabled leaves
\* the stored value alone
TabSteps ==
  /\ tab'.op = "get" =>
       /\ tab'.read = (IF tab.disabled THEN -1 ELSE tab._tabIndex)
       /\ tab'._tabIndex = tab._tabIndex
       /\ tab'.disabled = tab.disabled
  /\ (tab'.op = "set" /\ tab'.given.t \in {"null", "undefined"}) =>
       tab'._tabIndex = tab.defaultTabIndex
  /\ tab'.op = "set" => tab'.disabled = tab.disabled
  /\ tab'.op = "disabled" => tab'._tabIndex = tab._tabIndex

\* C28 as stated: besides the three steps, a read of an enabled instance
\* returns the last value assigned (or the default).  An assignment of NaN,
\* 'x' or '7px' stores 0, and the read returns 0.
C28_ReportsLastValueSet ==
  [][ /\ TabSteps
      /\ (tab'.op = "get" /\ ~tab.disabled) => ReportsGiven(tab, tab'.read)
    ]_vars

\* C28, amended: the three steps, and a read of an enabled instance returns
\* the last value assigned as coerceNumberProperty converts it (0 when it is
\* not numeric), or the default when nothing, null or undefined was assigned.
C28_ReportsCoercedValue ==
  [][ /\ TabSteps
      /\ (tab'.op = "get" /\ ~tab.disabled) =>
           tab'.read = (IF tab.given.t \in {"none", "null", "undefined"}
                          THEN tab.defaultTabIndex
                          ELSE coerceNumberProperty(tab.given))
    ]_vars

\* the string '7' was assigned and a later read of the enabled instance
\* returned the number 7
C28_Witness ==
  /\ tab.op = "get"
  /\ ~tab.disabled
  /\ tab.given = JsString(<<"7">>)
  /\ tab.read = 7
  /\ tab.ops = MaxTabOps

\* the clicks the step made
NewClicks ==
  SubSeq(menu'.call.log, Len(menu.call.log) + 1, Len(menu'.call.log))

\* the items of menu m a filter matches once the menu is open
MatchingItems(m, filter) ==
  { i \in 1..Len(Items(m)) : filter = "" \/ Items(m)[i].text = filter }

\* C29: each level of clickItem clicks the trigger of its menu exactly when
\* the menu is not open; then it throws 'Could not find item' without
\* clicking an item when nothing matches, clicks the first match when no
\* sub-filter is left, throws 'does not have a submenu' when sub-filters are
\* left and the first match has none, and otherwise goes on in the submenu
\* of the first match with one filter fewer; the level never exceeds the
\* number of filters given.
C29_ClickItemDescent ==
  [][ /\ menu.call.phase = "running" =>
           LET c == menu.call
               d == menu'.call
               m == c.at
               rest == Tail(c.filters)
               wasOpen == menu.opened[m]
               found == IF wasOpen \/ ~(m = Root /\ menu.disabled)
                          THEN MatchingItems(m, Head(c.filters)) ELSE {}
               first == CHOOSE i \in found : \A j \in found : i <= j
               itemClicks == { k \in 1..Len(NewClicks) : NewClicks[k].kind = "item" }
               triggerClicks == { k \in 1..Len(NewClicks) : NewClicks[k].kind = "trigger" }
           IN  /\ SubSeq(d.log, 1, Len(c.log)) = c.log
               /\ triggerClicks = (IF wasOpen THEN {} ELSE {1})
               /\ ~wasOpen => NewClicks[1] = TriggerClicked(m)
               /\ found = {} =>
                    /\ d.phase = "done"
                    /\ d.threw = "Could not find item"
                    /\ itemClicks = {}
               /\ (found # {} /\ rest = <<>>) =>
                    /\ d.phase = "done"
                    /\ d.threw = ""
                    /\ Cardinality(itemClicks) = 1
                    /\ NewClicks[Len(NewClicks)] = ItemClicked(m, first)
               /\ (found # {} /\ rest # <<>> /\ Items(m)[first].submenu = 0) =>
                    /\ d.phase = "done"
                    /\ d.threw = "does not have a submenu"
                    /\ itemClicks = {}
               /\ (found # {} /\ rest # <<>> /\ Items(m)[first].submenu # 0) =>
                    /\ d.phase = "running"
                    /\ d.threw = ""
                    /\ d.at = Items(m)[first].submenu
                    /\ d.filters = rest
                    /\ d.level = c.level + 1
                    /\ itemClicks = {}
      /\ menu'.call.phase # "idle" =>
           /\ menu'.call.level + Len(menu'.call.filters) = 1 + Len(menu'.call.args)
           /\ menu'.call.level <= Len(menu'.call.args)
    ]_vars

\* clickItem({text: 'b'}, {text: 'e'}, {text: 'a'}) on a menu that was open:
\* the root trigger was not clicked, the two submenus were opened, and the
\* item of the third level was clicked
C29_Witness ==
  /\ menu.call.phase = "done"
  /\ menu.call.threw = ""
  /\ menu.call.args = <<"b", "e", "a">>
  /\ menu.call.level = 3
  /\ menu.call.before[Root]
  /\ menu.call.log = <<TriggerClicked(2), TriggerClicked(3), ItemClicked(3, 1)>>

\* what the chain of the address-form schematic does, whatever becomes of
\* the options: buildComponent is the first rule and runs first; the second
\* rule is noop exactly when skipImport is set; when it is not, the second
\* rule appends the six form modules, in order, to the module resolved from
\* the options and changes no other module file; when it is, no module file
\* changes at all
ChainSteps ==
  /\ sch.status # "new" =>
       /\ Len(sch.chain) = 2
       /\ sch.chain[1] = "buildComponent"
       /\ sch.chain[2] = "noop" <=> sch.given.skipImport = "true"
       /\ sch.log = SubSeq(sch.chain, 1, Len(sch.log))
       /\ sch.status \in {"built", "failed"} => sch.log = <<"buildComponent">>
  /\ (sch.status = "done" /\ sch.given.skipImport # "true") =>
       \A m \in Modules :
         sch.tree[m] = IF m = FindModule(sch.given)
                         THEN sch.built[m] \o FormModules
                         ELSE sch.built[m]
  /\ (sch.status = "done" /\ sch.given.skipImport = "true") =>
       /\ sch.tree = sch.start
       /\ sch.options = sch.given

\* C30 as stated: besides the steps of the chain, the caller's options
\* object is as it was given.  With skipImport not set, the rule of
\* addFormModulesToModule hands the caller's object to
\* findModuleFromOptions, which sets its project and path when they are
\* not given.
C30_OptionsNeverMutated ==
  /\ ChainSteps
  /\ sch.status # "new" => sch.options = sch.given

\* C30, amended: the steps of the chain; buildComponent works on a copy, so
\* the caller's options are as given until the second rule runs, and after
\* it they differ from what was given in project and path at most.
C30_OptionsKeptFromBuildComponent ==
  /\ ChainSteps
  /\ sch.status \in {"chained", "built", "failed"} => sch.options = sch.given
  /\ sch.status = "done" =>
       [sch.options EXCEPT !.project = sch.given.project, !.path = sch.given.path]
         = sch.given

\* a run without skipImport on options that name neither project nor path:
\* buildComponent filled in its copy, the six modules follow the component's
\* declaration in app.module, and the other module file is as it was
C30_Witness ==
  /\ sch.status = "done"
  /\ sch.given = [skipImport |-> "false", project |-> "undefined",
                  path |-> "undefined", module |-> "undefined"]
  /\ sch.copy.module = "app"
  /\ sch.tree["app"] = <<"BrowserModule", "AddressFormComponent">> \o FormModules
  /\ sch.tree["other"] = sch.start["other"]

====
